---- MODULE Spec2Model ----
(***************************************************************************)
(* Model of the Excel comment extractor:                                   *)
(*   src/services/excelService.ts  (cleanCommentContent,                   *)
(*       extractThreadedComments, extractCommentsFromFile)                 *)
(*   src/App.tsx                   (processFile and the file handlers)     *)
(* Strings whose characters the code inspects (comment bodies, file        *)
(* names) are sequences of one-character strings, so that the regular      *)
(* expressions, trim, toLowerCase and endsWith are computed character by   *)
(* character.                                                              *)
(***************************************************************************)
EXTENDS Integers, Sequences, FiniteSets, TLC

(***************************************************************************)
(* Bounds of the model.                                                    *)
(***************************************************************************)
MaxLen == 5
MaxBody == 3

(***************************************************************************)
(* Character classes of the JavaScript regular expressions.                *)
(***************************************************************************)
\* \s and String.prototype.trim: white space including the line terminators
WhiteSpace == {" ", "\t", "\n", "\r", "\f"}

\* the characters before which $ and after which ^ match under the m flag
LineTerminator == {"\n", "\r"}

\* [A-Za-z0-9_-]
TagChar ==
  {"A","B","C","D","E","F","G","H","I","J","K","L","M","N","O","P","Q","R",
   "S","T","U","V","W","X","Y","Z",
   "a","b","c","d","e","f","g","h","i","j","k","l","m","n","o","p","q","r",
   "s","t","u","v","w","x","y","z",
   "0","1","2","3","4","5","6","7","8","9","_","-"}

\* length of the longest run of characters of S that starts at s[i]
RECURSIVE RunLen(_, _, _)
RunLen(s, i, S) ==
  IF i > Len(s) \/ s[i] \notin S THEN 0 ELSE 1 + RunLen(s, i + 1, S)

\* the literal ID# stands at s[i]
HasIdHash(s, i) ==
  /\ i + 2 <= Len(s)
  /\ s[i] = "I" /\ s[i + 1] = "D" /\ s[i + 2] = "#"

\* ^ under the m flag
AtLineStart(s, i) == i = 1 \/ s[i - 1] \in LineTerminator

\* $ under the m flag
AtLineEnd(s, i) == i = Len(s) + 1 \/ s[i] \in LineTerminator

\* MatchBannerTag with [A-Za-z0-9_-] in place of [A-Za-z0-9_-]+
MatchBannerTag_OneTagChar(s, i) ==
  LET eqs == RunLen(s, i, {"="})
      p   == i + eqs + RunLen(s, i + eqs, WhiteSpace)
      q   == p + 4
  IN  IF eqs >= 3 /\ HasIdHash(s, p) /\ RunLen(s, p + 3, TagChar) >= 1
      THEN q + RunLen(s, q, WhiteSpace)
      ELSE 0

(***************************************************************************)
(* /={3,}\s*ID#[A-Za-z0-9_-]+\s*/ tried at position i: the position after  *)
(* the match, or 0 when there is no match at i. Every quantifier is greedy *)
(* and none can give characters back to a later atom, so the match is the  *)
(* maximal one.                                                            *)
(***************************************************************************)
MatchBannerTag(s, i) ==
  LET eqs == RunLen(s, i, {"="})
      p   == i + eqs + RunLen(s, i + eqs, WhiteSpace)
      tag == RunLen(s, p + 3, TagChar)
      q   == p + 3 + tag
  IN  IF eqs >= 3 /\ HasIdHash(s, p) /\ tag >= 1
      THEN q + RunLen(s, q, WhiteSpace)
      ELSE 0

\* /^={3,}\s*/gm tried at position i
MatchBannerLine(s, i) ==
  LET eqs == RunLen(s, i, {"="})
  IN  IF AtLineStart(s, i) /\ eqs >= 3
      THEN i + eqs + RunLen(s, i + eqs, WhiteSpace)
      ELSE 0

\* the largest j in 0..m such that $ matches at q + j, or -1
RECURSIVE LastLineEnd(_, _, _)
LastLineEnd(s, q, m) ==
  IF m < 0 THEN -1
  ELSE IF AtLineEnd(s, q + m) THEN m
  ELSE LastLineEnd(s, q, m - 1)

\* /^ID#[A-Za-z0-9_-]+\s*$/gm tried at position i: \s* is greedy and backs
\* off until $ matches
MatchTagLine(s, i) ==
  LET tag == RunLen(s, i + 3, TagChar)
      q   == i + 3 + tag
      j   == LastLineEnd(s, q, RunLen(s, q, WhiteSpace))
  IN  IF AtLineStart(s, i) /\ HasIdHash(s, i) /\ tag >= 1 /\ j >= 0
      THEN q + j
      ELSE 0

\* String.prototype.replace with a g-flagged pattern and '': scan from the
\* left, drop each match and continue after it
RECURSIVE ReplaceBannerTag(_, _)
ReplaceBannerTag(s, i) ==
  IF i > Len(s) THEN << >>
  ELSE IF MatchBannerTag(s, i) > 0 THEN ReplaceBannerTag(s, MatchBannerTag(s, i))
  ELSE << s[i] >> \o ReplaceBannerTag(s, i + 1)

RECURSIVE ReplaceBannerLine(_, _)
ReplaceBannerLine(s, i) ==
  IF i > Len(s) THEN << >>
  ELSE IF MatchBannerLine(s, i) > 0 THEN ReplaceBannerLine(s, MatchBannerLine(s, i))
  ELSE << s[i] >> \o ReplaceBannerLine(s, i + 1)

RECURSIVE ReplaceTagLine(_, _)
ReplaceTagLine(s, i) ==
  IF i > Len(s) THEN << >>
  ELSE IF MatchTagLine(s, i) > 0 THEN ReplaceTagLine(s, MatchTagLine(s, i))
  ELSE << s[i] >> \o ReplaceTagLine(s, i + 1)

\* the largest p in 1..w with s[p] = "\n", or 0
RECURSIVE LastNewline(_, _)
LastNewline(s, w) ==
  IF w = 0 THEN 0
  ELSE IF s[w] = "\n" THEN w
  ELSE LastNewline(s, w - 1)

\* replace(/^\s*\n+/, ''): no flags, so only at the start of the string and
\* only once; \s* backs off to the last newline of the leading white space
ReplaceLeadingBlank(s) ==
  LET p == LastNewline(s, RunLen(s, 1, WhiteSpace))
  IN  SubSeq(s, p + 1, Len(s))

\* length of the run of white space that ends at s[i]
RECURSIVE RunLenBack(_, _)
RunLenBack(s, i) ==
  IF i < 1 \/ s[i] \notin WhiteSpace THEN 0 ELSE 1 + RunLenBack(s, i - 1)

\* String.prototype.trim
Trim(s) ==
  LET lead == RunLen(s, 1, WhiteSpace)
  IN  IF lead = Len(s) THEN << >>
      ELSE SubSeq(s, lead + 1, Len(s) - RunLenBack(s, Len(s)))

cleanCommentContent(text) ==
  LET c1 == ReplaceBannerTag(text, 1)
      c2 == ReplaceBannerLine(c1, 1)
      c3 == ReplaceTagLine(c2, 1)
      c4 == ReplaceLeadingBlank(c3)
  IN  Trim(c4)

(***************************************************************************)
(* String operations of the JavaScript runtime used by the code.           *)
(***************************************************************************)
IsSubAt(s, i, sub) ==
  /\ i >= 1
  /\ i + Len(sub) - 1 <= Len(s)
  /\ \A k \in 1..Len(sub) : s[i + k - 1] = sub[k]

\* String.prototype.indexOf, 1-based; 0 when sub does not occur
IndexOf(s, sub) ==
  LET hits == {i \in 1..(Len(s) + 1) : IsSubAt(s, i, sub)}
  IN  IF hits = {} THEN 0 ELSE CHOOSE i \in hits : \A j \in hits : i <= j

\* String.prototype.includes
Includes(s, sub) == IndexOf(s, sub) > 0

\* String.prototype.endsWith
EndsWith(s, suf) == IsSubAt(s, Len(s) - Len(suf) + 1, suf)

\* String.prototype.replace with a string pattern: the first occurrence only
ReplaceFirst(s, sub, rep) ==
  LET i == IndexOf(s, sub)
  IN  IF i = 0 THEN s
      ELSE SubSeq(s, 1, i - 1) \o rep \o SubSeq(s, i + Len(sub), Len(s))

UpperCase == <<"A","B","C","D","E","F","G","H","I","J","K","L","M","N","O","P",
               "Q","R","S","T","U","V","W","X","Y","Z">>
LowerCase == <<"a","b","c","d","e","f","g","h","i","j","k","l","m","n","o","p",
               "q","r","s","t","u","v","w","x","y","z">>

LowerChar(c) ==
  IF \E k \in 1..26 : UpperCase[k] = c
  THEN LowerCase[CHOOSE k \in 1..26 : UpperCase[k] = c]
  ELSE c

\* String.prototype.toLowerCase
ToLowerCase(s) == [i \in 1..Len(s) |-> LowerChar(s[i])]

Digits == <<"0","1","2","3","4","5","6","7","8","9">>
DigitChar == {Digits[k] : k \in 1..10}
DigitVal(c) == (CHOOSE k \in 1..10 : Digits[k] = c) - 1

\* the decimal numeral of n, as a template literal `${n}` writes it
RECURSIVE NumStr(_)
NumStr(n) ==
  IF n < 10 THEN << Digits[n + 1] >>
  ELSE NumStr(n \div 10) \o << Digits[(n % 10) + 1] >>

\* parseInt of a string of decimal digits
RECURSIVE ParseInt(_)
ParseInt(ds) ==
  IF Len(ds) = 0 THEN 0
  ELSE 10 * ParseInt(SubSeq(ds, 1, Len(ds) - 1)) + DigitVal(ds[Len(ds)])

(***************************************************************************)
(* String literals of the source.                                          *)
(***************************************************************************)
S_threadedComment == <<"t","h","r","e","a","d","e","d","C","o","m","m","e","n","t">>
S_tcPattern ==
  <<"t","h","r","e","a","d","e","d","C","o","m","m","e","n","t","s","/">>
    \o S_threadedComment
S_dotXml == <<".","x","m","l">>
S_worksheetsSlash == <<"w","o","r","k","s","h","e","e","t","s","/">>
S_sheet == <<"s","h","e","e","t">>
S_Sheet == <<"S","h","e","e","t">>
S_rId == <<"r","I","d">>
S_dotdotSlash == <<".",".","/">>
S_xlSlash == <<"x","l","/">>
S_xls == <<".","x","l","s">>
S_xlsx == <<".","x","l","s","x">>
S_xlsm == <<".","x","l","s","m">>
S_xlsb == <<".","x","l","s","b">>

\* 'Unknown Sheet'
UnknownSheet == <<"U","n","k","n","o","w","n"," ","S","h","e","e","t">>

\* the unknown-author sentinel (the source spells it in Vietnamese)
UnknownAuthor == <<"K","h","o","n","g"," ","r","o">>

\* the author getCommentContent gives a note object
SystemAuthor == <<"H","e"," ","t","h","o","n","g">>

\* the empty-cell and could-not-be-read sentinels of originalContent
EmptyCell == <<"[","O"," ","t","r","o","n","g","]">>
UnreadableCell == <<"[","K","h","o","n","g"," ","d","o","c"," ","d","u","o","c","]">>

\* a || b on strings: the empty string is falsy
OrElse(a, b) == IF a = << >> THEN b ELSE a

(***************************************************************************)
(* Map<string, V> as the sequence of its entries in insertion order.       *)
(***************************************************************************)
MapHas(m, k) == \E i \in 1..Len(m) : m[i].key = k

\* Map.prototype.set: an existing key keeps its place and takes the new value
MapSet(m, k, v) ==
  IF MapHas(m, k)
  THEN [i \in 1..Len(m) |-> IF m[i].key = k THEN [key |-> k, val |-> v] ELSE m[i]]
  ELSE Append(m, [key |-> k, val |-> v])

\* Map.prototype.get of a string-valued map; undefined is written << >>,
\* which every use in the source treats like the empty string (get(..) || d)
MapGet(m, k) ==
  IF MapHas(m, k) THEN m[CHOOSE i \in 1..Len(m) : m[i].key = k].val ELSE << >>

(***************************************************************************)
(* extractThreadedComments: the maps of steps 1 to 5.                      *)
(* An archive is a record of what the parsers see in its parts:            *)
(*   zipOk      JSZip.loadAsync accepts the bytes                          *)
(*   xlsxOk     ExcelJS workbook.xlsx.load accepts the bytes               *)
(*   persons    the person elements of xl/persons/person.xml               *)
(*   sheets     the sheet elements of xl/workbook.xml                      *)
(*   wbRels     the Relationship elements of xl/_rels/workbook.xml.rels    *)
(*   sheetRels  sheet index -> Target attributes of that sheet's rels file *)
(*   entries    the other entries in archive order, each with its path and *)
(*              its threadedComment elements                               *)
(*   worksheets the worksheets ExcelJS loads, each with its cells          *)
(*   missing    the optional parts zip.file(..) does not find, among       *)
(*              "persons", "workbook" and "wbRels"; a sheet relationship   *)
(*              file is missing when its index is not in DOMAIN sheetRels  *)
(*   broken     the parts among these whose async('string') rejects        *)
(*   brokenRels the sheet indices whose relationship file cannot be read   *)
(* An entry has readable = FALSE when its async('string') rejects and      *)
(* isDir = TRUE when it is a folder, for which zip.file(path) is null.     *)
(* An attribute that is absent is the empty string, as                     *)
(* getAttribute(..) || '' makes it.                                        *)
(***************************************************************************)
\* ReadRejects for code that calls async('string') without testing the file
ReadRejects_WhenMissing(a, part) == part \in a.broken \/ part \in a.missing

\* `await file.async('string')` of an optional part rejects: the part is
\* there (the if of lines 167, 184, 200 is taken) and cannot be read
ReadRejects(a, part) == part \in a.broken /\ part \notin a.missing

\* the elements getElementsByTagName finds: none when the part is absent
PersonElements(a) == IF "persons" \in a.missing THEN << >> ELSE a.persons
SheetElements(a) == IF "workbook" \in a.missing THEN << >> ELSE a.sheets
RelationshipElements(a) == IF "wbRels" \in a.missing THEN << >> ELSE a.wbRels

\* one of the reads of steps 1 to 3 rejects
HeadReadRejects(a) ==
  \/ ReadRejects(a, "persons")
  \/ ReadRejects(a, "workbook")
  \/ ReadRejects(a, "wbRels")


\* LoadPersons giving every person the sentinel as displayName
RECURSIVE LoadPersons_NoDisplayName(_, _)
LoadPersons_NoDisplayName(els, n) ==
  IF n = 0 THEN << >>
  ELSE MapSet(LoadPersons_NoDisplayName(els, n - 1), els[n].id, UnknownAuthor)

\* step 1: persons.set(id, {displayName: getAttribute('displayName') || sentinel})
RECURSIVE LoadPersons(_, _)
LoadPersons(els, n) ==
  IF n = 0 THEN << >>
  ELSE MapSet(LoadPersons(els, n - 1), els[n].id,
              OrElse(els[n].displayName, UnknownAuthor))

\* step 2: sheetNames.set(rId, name || `Sheet${i + 1}`)
RECURSIVE LoadSheetNames(_, _)
LoadSheetNames(els, n) ==
  IF n = 0 THEN << >>
  ELSE MapSet(LoadSheetNames(els, n - 1), els[n].rId,
              OrElse(els[n].name, S_Sheet \o NumStr(n)))

\* target.replace(/^\//, '')
StripLeadingSlash(t) ==
  IF Len(t) > 0 /\ t[1] = "/" THEN SubSeq(t, 2, Len(t)) ELSE t

\* step 3: sheetFileMap.set(target without leading slash, rId) for the
\* targets that include 'worksheets/'
RECURSIVE LoadSheetFileMap(_, _)
LoadSheetFileMap(els, n) ==
  IF n = 0 THEN << >>
  ELSE IF Includes(els[n].Target, S_worksheetsSlash)
       THEN MapSet(LoadSheetFileMap(els, n - 1),
                   StripLeadingSlash(els[n].Target), els[n].Id)
       ELSE LoadSheetFileMap(els, n - 1)

\* step 4: the entries whose path includes 'threadedComments/threadedComment'
threadedCommentsFilesOf(entries) ==
  SelectSeq(entries, LAMBDA e : Includes(e.path, S_tcPattern))

\* the highest sheet index whose relationship file is probed
ProbeMax == 20

\* `worksheets/sheet${sheetIndex}.xml`
SheetPartKey(sheetIndex) ==
  S_worksheetsSlash \o S_sheet \o NumStr(sheetIndex) \o S_dotXml

\* step 5, the Relationship elements of one sheet relationship file
RECURSIVE LinkTargets(_, _, _, _, _, _)
LinkTargets(m, targets, n, sheetIndex, sheetNames, sheetFileMap) ==
  IF n = 0 THEN m
  ELSE LET prev == LinkTargets(m, targets, n - 1, sheetIndex, sheetNames, sheetFileMap)
           rId == MapGet(sheetFileMap, SheetPartKey(sheetIndex))
           sheetName == OrElse(MapGet(sheetNames, rId), S_Sheet \o NumStr(sheetIndex))
       IN  IF Includes(targets[n], S_tcPattern)
           THEN MapSet(prev, ReplaceFirst(targets[n], S_dotdotSlash, S_xlSlash), sheetName)
           ELSE prev

\* step 5: sheet indices 1..upTo, a missing relationship file is skipped
RECURSIVE LoadSheetToThreadedComment(_, _, _, _)
LoadSheetToThreadedComment(sheetRels, upTo, sheetNames, sheetFileMap) ==
  IF upTo = 0 THEN << >>
  ELSE LET prev == LoadSheetToThreadedComment(sheetRels, upTo - 1, sheetNames, sheetFileMap)
       IN  IF upTo \in DOMAIN sheetRels
           THEN LinkTargets(prev, sheetRels[upTo], Len(sheetRels[upTo]), upTo,
                            sheetNames, sheetFileMap)
           ELSE prev

\* one of the reads of step 5 rejects
SheetRelsReadRejects(a) ==
  \E k \in 1..ProbeMax : k \in DOMAIN a.sheetRels /\ k \in a.brokenRels

(***************************************************************************)
(* extractThreadedComments: step 6, one threaded-comment part.             *)
(***************************************************************************)
\* tcFile.match(/threadedComment(\d+)\.xml/) at position i: the digits, or << >>
MatchSuffixAt(s, i) ==
  LET d0 == i + Len(S_threadedComment)
      nd == RunLen(s, d0, DigitChar)
  IN  IF IsSubAt(s, i, S_threadedComment) /\ nd >= 1 /\ IsSubAt(s, d0 + nd, S_dotXml)
      THEN SubSeq(s, d0, d0 + nd - 1)
      ELSE << >>

\* the first match from the left: its captured digits, or << >> for null
MatchSuffix(s) ==
  LET hits == {i \in 1..Len(s) : MatchSuffixAt(s, i) # << >>}
  IN  IF hits = {} THEN << >>
      ELSE MatchSuffixAt(s, CHOOSE i \in hits : \A j \in hits : i <= j)

\* lines 260-278: the map of step 5, then the file-name fallback
ResolveSheetName(tcFile, sheetToThreadedComment, sheetNames) ==
  LET first == OrElse(MapGet(sheetToThreadedComment, tcFile), UnknownSheet)
      digits == MatchSuffix(tcFile)
      idx == ParseInt(digits)
      byRId == IF MapHas(sheetNames, S_rId \o NumStr(idx))
               THEN MapGet(sheetNames, S_rId \o NumStr(idx))
               ELSE UnknownSheet
  IN  IF first # UnknownSheet THEN first
      ELSE IF digits = << >> THEN first
      ELSE IF byRId # UnknownSheet THEN byRId
      ELSE S_Sheet \o NumStr(idx)

\* ParseComments skipping the elements whose personId is not in the map
RECURSIVE ParseComments_DropUnknown(_, _, _, _)
ParseComments_DropUnknown(els, n, sheetName, persons) ==
  IF n = 0 THEN << >>
  ELSE LET prev == ParseComments_DropUnknown(els, n - 1, sheetName, persons)
       IN  IF Trim(els[n].text) # << >> /\ MapHas(persons, els[n].personId)
           THEN Append(prev, [sheetName |-> sheetName,
                              cellAddress |-> els[n].ref,
                              text |-> Trim(els[n].text),
                              author |-> MapGet(persons, els[n].personId)])
           ELSE prev

\* ParseComments without the test of the trimmed text
RECURSIVE ParseComments_KeepBlank(_, _, _, _)
ParseComments_KeepBlank(els, n, sheetName, persons) ==
  IF n = 0 THEN << >>
  ELSE Append(ParseComments_KeepBlank(els, n - 1, sheetName, persons),
              [sheetName |-> sheetName,
               cellAddress |-> els[n].ref,
               text |-> Trim(els[n].text),
               author |-> OrElse(MapGet(persons, els[n].personId), UnknownAuthor)])

\* lines 284-307: one record per threadedComment element whose trimmed text
\* is not empty
RECURSIVE ParseComments(_, _, _, _)
ParseComments(els, n, sheetName, persons) ==
  IF n = 0 THEN << >>
  ELSE LET prev == ParseComments(els, n - 1, sheetName, persons)
           author == OrElse(MapGet(persons, els[n].personId), UnknownAuthor)
       IN  IF Trim(els[n].text) # << >>
           THEN Append(prev, [sheetName |-> sheetName,
                              cellAddress |-> els[n].ref,
                              text |-> Trim(els[n].text),
                              author |-> author])
           ELSE prev

(***************************************************************************)
(* Cell values and notes as ExcelJS hands them to the code.                *)
(*   value: [kind |-> "null"], [kind |-> "string", text |-> ...] or a      *)
(*          hyperlink value [kind |-> "hyperlink", textDefined |-> ..,     *)
(*          text |-> ...], whose text property may be undefined            *)
(*   note:  [kind |-> "none"], [kind |-> "string", text |-> ...], or an    *)
(*          object [kind |-> "object", texts |-> .., note |-> .., text |-> *)
(*          ..], each property being absent, [kind |-> "absent"], a string,*)
(*          another object, given by its JSON text [kind |-> "object",     *)
(*          json |-> ...], or, for texts, an array of runs [kind |->       *)
(*          "runs", runs |-> the text of each run, << >> when it has none] *)
(***************************************************************************)
\* line 54: 'text' in value holds and value.text is undefined, so that
\* textValue.toString() throws a TypeError
getCellValueThrows(cell) ==
  cell.value.kind = "hyperlink" /\ ~cell.value.textDefined

\* the string returned when nothing is thrown
getCellValueAsString(cell) ==
  IF cell.value.kind = "null" THEN << >> ELSE cell.value.text

\* if (cell.note): undefined and the empty string are falsy
HasNote(cell) ==
  /\ cell.note.kind # "none"
  /\ ~(cell.note.kind = "string" /\ cell.note.text = << >>)

RECURSIVE JoinRuns(_, _)
JoinRuns(runs, n) == IF n = 0 THEN << >> ELSE JoinRuns(runs, n - 1) \o runs[n]

\* firstPart.split(':')[0]
BeforeColon(s) == SubSeq(s, 1, IndexOf(s, <<":">>) - 1)

\* the value of a property is truthy: undefined and '' are not, an array
\* and an object are
Truthy(f) == f.kind \in {"object", "runs"} \/ (f.kind = "string" /\ f.text # << >>)

\* JSON.stringify of a string without characters to escape
Quote(str) == <<"\"">> \o str \o <<"\"">>

RECURSIVE JoinComma(_, _)
JoinComma(parts, n) ==
  IF n = 0 THEN << >>
  ELSE IF n = 1 THEN parts[1]
  ELSE JoinComma(parts, n - 1) \o <<",">> \o parts[n]

\* JSON.stringify of the value of a property
RECURSIVE JsonOfField(_)
JsonOfField(f) ==
  IF f.kind = "string" THEN Quote(f.text)
  ELSE IF f.kind = "object" THEN f.json
  ELSE <<"[">> \o JoinComma([k \in 1..Len(f.runs) |->
                               <<"{">> \o Quote(<<"t","e","x","t">>) \o <<":">>
                                 \o Quote(f.runs[k]) \o <<"}">>], Len(f.runs))
       \o <<"]">>

\* typeof x === 'string' ? x : JSON.stringify(x)
StringOrJson(f) == IF f.kind = "string" THEN f.text ELSE JsonOfField(f)

S_emptyObject == <<"{","}">>

\* JSON.stringify(note): the properties the object has, texts, note, text
JsonOfNote(note) ==
  LET member(key, f) ==
        IF f.kind = "absent" THEN << >> ELSE << Quote(key) \o <<":">> \o JsonOfField(f) >>
      members == member(<<"t","e","x","t","s">>, note.texts)
                   \o member(<<"n","o","t","e">>, note.note)
                   \o member(<<"t","e","x","t">>, note.text)
  IN  IF members = << >> THEN S_emptyObject
      ELSE <<"{">> \o JoinComma(members, Len(members)) \o <<"}">>

\* getCommentContent taking the text property before the note property
getCommentContent_TextFirst(note) ==
  IF note.kind = "none" THEN [text |-> << >>, author |-> UnknownAuthor]
  ELSE IF note.kind = "string" THEN [text |-> note.text, author |-> UnknownAuthor]
  ELSE IF note.texts.kind = "runs"
  THEN LET firstPart == IF Len(note.texts.runs) > 0 THEN note.texts.runs[1] ELSE << >>
       IN  [text |-> JoinRuns(note.texts.runs, Len(note.texts.runs)),
            author |-> IF Includes(firstPart, <<":">>)
                       THEN Trim(BeforeColon(firstPart))
                       ELSE SystemAuthor]
  ELSE IF Truthy(note.text)
  THEN [text |-> StringOrJson(note.text), author |-> SystemAuthor]
  ELSE IF Truthy(note.note)
  THEN [text |-> StringOrJson(note.note), author |-> SystemAuthor]
  ELSE [text |-> JsonOfNote(note), author |-> SystemAuthor]

\* lines 86-119
getCommentContent(note) ==
  IF note.kind = "none" THEN [text |-> << >>, author |-> UnknownAuthor]
  ELSE IF note.kind = "string" THEN [text |-> note.text, author |-> UnknownAuthor]
  ELSE IF note.texts.kind = "runs"
  THEN LET firstPart == IF Len(note.texts.runs) > 0 THEN note.texts.runs[1] ELSE << >>
       IN  [text |-> JoinRuns(note.texts.runs, Len(note.texts.runs)),
            author |-> IF Includes(firstPart, <<":">>)
                       THEN Trim(BeforeColon(firstPart))
                       ELSE SystemAuthor]
  ELSE IF Truthy(note.note)
  THEN [text |-> StringOrJson(note.note), author |-> SystemAuthor]
  ELSE IF Truthy(note.text)
  THEN [text |-> StringOrJson(note.text), author |-> SystemAuthor]
  ELSE [text |-> JsonOfNote(note), author |-> SystemAuthor]

(***************************************************************************)
(* extractCommentsFromFile: the two passes over the loaded workbook.       *)
(***************************************************************************)
\* workbook.getWorksheet(name): the first worksheet of that name, if any
HasWorksheet(worksheets, name) == \E i \in 1..Len(worksheets) : worksheets[i].name = name

getWorksheet(worksheets, name) ==
  worksheets[CHOOSE i \in 1..Len(worksheets) :
               /\ worksheets[i].name = name
               /\ \A j \in 1..(i - 1) : worksheets[j].name # name]

\* worksheet.getCell(address): the stored cell, or a new empty one
getCell(worksheet, address) ==
  IF \E i \in 1..Len(worksheet.cells) : worksheet.cells[i].address = address
  THEN worksheet.cells[CHOOSE i \in 1..Len(worksheet.cells) :
                         worksheet.cells[i].address = address]
  ELSE [address |-> address, value |-> [kind |-> "null"], note |-> [kind |-> "none"]]

\* lines 365-384: the output record of one threaded comment
ThreadedRecord(worksheets, sheetName, comment) ==
  LET cell == getCell(getWorksheet(worksheets, sheetName), comment.cellAddress)
      originalContent ==
        IF ~HasWorksheet(worksheets, sheetName) THEN EmptyCell
        ELSE IF getCellValueThrows(cell) THEN UnreadableCell
        ELSE OrElse(getCellValueAsString(cell), EmptyCell)
  IN  [sheetName |-> comment.sheetName,
       cellAddress |-> comment.cellAddress,
       originalContent |-> Trim(originalContent),
       commentContent |-> cleanCommentContent(comment.text),
       author |-> comment.author]

RECURSIVE ThreadedRecordsOfSheet(_, _, _, _)
ThreadedRecordsOfSheet(worksheets, sheetName, comments, n) ==
  IF n = 0 THEN << >>
  ELSE Append(ThreadedRecordsOfSheet(worksheets, sheetName, comments, n - 1),
              ThreadedRecord(worksheets, sheetName, comments[n]))

\* lines 361-386: the entries of threadedCommentsMap in insertion order
RECURSIVE ThreadedRecords(_, _, _)
ThreadedRecords(worksheets, map, n) ==
  IF n = 0 THEN << >>
  ELSE ThreadedRecords(worksheets, map, n - 1)
         \o ThreadedRecordsOfSheet(worksheets, map[n].key, map[n].val, Len(map[n].val))

\* `${sheetName}|${cellAddress}`
AddressKey(sheetName, cellAddress) == sheetName \o <<"|">> \o cellAddress

\* ExistingAddressesOf leaving the set empty
ExistingAddressesOf_NoKeys(records) == {}

\* ExistingAddressesOf keyed by the cell address alone
ExistingAddressesOf_CellOnly(records) ==
  {records[i].cellAddress : i \in 1..Len(records)}

\* line 395
ExistingAddressesOf(records) ==
  {AddressKey(records[i].sheetName, records[i].cellAddress) : i \in 1..Len(records)}

\* LegacyRecordsOfCell without the look-up in existingAddresses
LegacyRecordsOfCell_NoSkip(sheetName, cell, existingAddresses) ==
  LET c == getCommentContent(cell.note)
  IN  IF HasNote(cell) /\ Len(Trim(c.text)) > 0
      THEN << [sheetName |-> sheetName,
               cellAddress |-> cell.address,
               originalContent |-> OrElse(Trim(getCellValueAsString(cell)), EmptyCell),
               commentContent |-> cleanCommentContent(c.text),
               author |-> c.author] >>
      ELSE << >>

\* lines 402-422: the records one cell adds, none or one
LegacyRecordsOfCell(sheetName, cell, existingAddresses) ==
  LET c == getCommentContent(cell.note)
      originalValue == getCellValueAsString(cell)
  IN  IF AddressKey(sheetName, cell.address) \in existingAddresses THEN << >>
      ELSE IF ~HasNote(cell) THEN << >>
      ELSE IF Len(Trim(c.text)) > 0
      THEN << [sheetName |-> sheetName,
               cellAddress |-> cell.address,
               originalContent |-> OrElse(Trim(originalValue), EmptyCell),
               commentContent |-> cleanCommentContent(c.text),
               author |-> c.author] >>
      ELSE << >>

RECURSIVE LegacyRecordsOfSheet(_, _, _, _)
LegacyRecordsOfSheet(sheetName, cells, n, existingAddresses) ==
  IF n = 0 THEN << >>
  ELSE LegacyRecordsOfSheet(sheetName, cells, n - 1, existingAddresses)
         \o LegacyRecordsOfCell(sheetName, cells[n], existingAddresses)

\* lines 406-409: the cell is not excluded, carries a note, and the
\* conversion of its value throws
LegacyCellThrows(sheetName, cell, existingAddresses) ==
  /\ AddressKey(sheetName, cell.address) \notin existingAddresses
  /\ HasNote(cell)
  /\ getCellValueThrows(cell)

\* the cells in the order eachSheet, eachRow and eachCell visit them
RECURSIVE ScanOrder(_, _)
ScanOrder(worksheets, n) ==
  IF n = 0 THEN << >>
  ELSE ScanOrder(worksheets, n - 1)
         \o [c \in 1..Len(worksheets[n].cells) |->
               [sheetName |-> worksheets[n].name, cell |-> worksheets[n].cells[c]]]

\* lines 397-425: workbook.eachSheet, eachRow, eachCell
RECURSIVE LegacyRecords(_, _, _)
LegacyRecords(worksheets, n, existingAddresses) ==
  IF n = 0 THEN << >>
  ELSE LegacyRecords(worksheets, n - 1, existingAddresses)
         \o LegacyRecordsOfSheet(worksheets[n].name, worksheets[n].cells,
                                 Len(worksheets[n].cells), existingAddresses)

(***************************************************************************)
(* extractCommentsFromFile: the format check on the file name.             *)
(***************************************************************************)
ErrXls == "Dinh dang .xls (Excel 97-2003) khong duoc ho tro day du. Vui long luu file duoi dinh dang .xlsx va thu lai."
ErrXlsb == "Dinh dang .xlsb (Excel Binary) khong duoc ho tro. Vui long luu file duoi dinh dang .xlsx va thu lai."
ErrLoad == "workbook.xlsx.load rejected"
ErrCellValue == "TypeError: Cannot read properties of undefined (reading 'toString')"
NoError == ""

\* FormatError testing file.name without toLowerCase
FormatError_CaseSensitive(name) ==
  IF /\ EndsWith(name, S_xls)
     /\ ~EndsWith(name, S_xlsx)
     /\ ~EndsWith(name, S_xlsm)
     /\ ~EndsWith(name, S_xlsb)
  THEN ErrXls
  ELSE IF EndsWith(name, S_xlsb) THEN ErrXlsb
  ELSE NoError

\* lines 337-345: the message of the error thrown, NoError when none is
FormatError(name) ==
  LET fileName == ToLowerCase(name)
  IN  IF /\ EndsWith(fileName, S_xls)
         /\ ~EndsWith(fileName, S_xlsx)
         /\ ~EndsWith(fileName, S_xlsm)
         /\ ~EndsWith(fileName, S_xlsb)
      THEN ErrXls
      ELSE IF EndsWith(fileName, S_xlsb) THEN ErrXlsb
      ELSE NoError

\* the two alerts of processFile
AlertNotFound == "Khong tim thay comment nao trong file nay."
AlertError == "Loi khi xu ly file Excel."
NoAlert == ""

(***************************************************************************)
(* translationService.ts. The remote services are a record of how they     *)
(* answer during one call of translateBatch:                               *)
(*   batch   chunk number -> answer of the batch request for that chunk    *)
(*   gemini  answer to the request of translateText                        *)
(*   free    answer of the free endpoint                                   *)
(* A translation of a text is told apart from the text by a leading "~".   *)
(***************************************************************************)
BATCH_SIZE == 20

Translation(text) == <<"~">> \o text

Min(a, b) == IF a <= b THEN a ELSE b

\* the answers to one batch request: the request or the parsing of its
\* answer throws; the answer has no candidate text; the text is JSON but no
\* array; an array with one translation per text; that array without its
\* first element; that array behind one more element
BatchReplies == {"rejects", "noContent", "notArray", "aligned", "short", "long"}

\* the answers to a request for a single text
GeminiReplies == {"text", "error", "noContent", "rejects"}
FreeReplies == {"ok", "malformed", "notOk", "rejects"}

\* texts.slice(i, i + BATCH_SIZE) for the c-th chunk
ChunkOf(texts, c) ==
  SubSeq(texts, (c - 1) * BATCH_SIZE + 1, Min(c * BATCH_SIZE, Len(texts)))

NumChunks(texts) == (Len(texts) + BATCH_SIZE - 1) \div BATCH_SIZE

\* JSON.parse(content) when it is an array
ParsedArray(chunk, reply) ==
  LET aligned == [j \in 1..Len(chunk) |-> Translation(chunk[j])]
  IN  IF reply = "short" THEN Tail(aligned)
      ELSE IF reply = "long" THEN << Translation(<< >>) >> \o aligned
      ELSE aligned

\* lines 106-118: what one chunk adds to results
ChunkResults(chunk, reply) ==
  IF reply \in {"noContent", "notArray"} THEN chunk ELSE ParsedArray(chunk, reply)

\* lines 89-122: results after the chunks 1..c
RECURSIVE BatchResults(_, _, _)
BatchResults(texts, replies, c) ==
  IF c = 0 THEN << >>
  ELSE BatchResults(texts, replies, c - 1) \o ChunkResults(ChunkOf(texts, c), replies[c])

\* some request of the loop throws, which ends the loop in the catch of
\* line 128
BatchThrows(texts, replies) ==
  \E c \in 1..NumChunks(texts) : replies[c] = "rejects"

\* lines 13-27
translateWithFreeGoogle(text, free) ==
  IF free = "ok" THEN Translation(text) ELSE text

\* lines 29-72
translateText(text, apiKey, gemini, free) ==
  IF Trim(text) = << >> THEN << >>
  ELSE IF apiKey /\ gemini = "text" THEN Trim(Translation(text))
  ELSE translateWithFreeGoogle(text, free)

\* lines 77-142: the list translateBatch resolves with
translateBatch(texts, apiKey, remote) ==
  LET results == BatchResults(texts, remote.batch, NumChunks(texts))
  IN  IF Len(texts) = 0 THEN << >>
      ELSE IF apiKey /\ ~BatchThrows(texts, remote.batch) /\ Len(results) = Len(texts)
      THEN results
      ELSE [i \in 1..Len(texts) |->
              translateText(texts[i], apiKey, remote.gemini, remote.free)]

\* lines 80-83
WithTranslations(list, translatedTexts) ==
  [i \in 1..Len(list) |->
     [sheetName |-> list[i].sheetName,
      cellAddress |-> list[i].cellAddress,
      originalContent |-> list[i].originalContent,
      commentContent |-> list[i].commentContent,
      author |-> list[i].author,
      translatedContent |-> translatedTexts[i]]]

(***************************************************************************)
(* State.                                                                  *)
(***************************************************************************)
VARIABLES
  disk,                  \* the files the user can pick
  selectedLocalFile,     \* React state: << >> or << file >>
  extractedComments,     \* React state: the list on display
  isProcessing,          \* React state
  downloadUrl,           \* React state: << >> or << the list the link holds >>
  targetLang,            \* React state: "" or a language code
  lastAlert,             \* the message of the last alert() shown
  consoleError,          \* the message of the last error processFile logged
  pc,                    \* position of the running processFile
  file,                  \* processFile's argument: << >> or << file >>
  persons,               \* extractThreadedComments locals
  sheetNames,
  sheetFileMap,
  threadedCommentsFiles,
  sheetToThreadedComment,
  tcIndex,               \* parts of threadedCommentsFiles already parsed
  sheetComments,         \* the records of the part parsed last
  result,
  hasThreadedComments,
  tcError,               \* the catch of extractThreadedComments has run
  extracted,             \* extractCommentsFromFile's local extractedComments
  existingAddresses,
  threadedLen,           \* extracted.length when existingAddresses was built
  scanIndex,             \* cells of the legacy scan already examined
  thrown,                \* message of the error in flight, NoError if none
  comments,              \* processFile's local
  lang,                  \* the targetLang of the render whose button was clicked
  cleanIn,               \* cleanCommentContent on its own: argument,
  cleanOnce,             \*   result,
  cleanTwice,            \*   result of a second application,
  cleanBody,             \*   the body of a banner-and-tag argument,
  cleanPc,
  trTexts,               \* translateBatch on its own: argument,
  trKey,                 \*   whether an API key is configured,
  trRemote,              \*   how the remote services answer,
  trResult,              \*   the list it resolves with,
  trPc,
  noteIn,                \* getCommentContent on its own: argument,
  noteOut,               \* returned object,
  notePc                 \* position

appVars == << selectedLocalFile, extractedComments, isProcessing, downloadUrl,
              targetLang, lastAlert, consoleError >>
tcVars == << persons, sheetNames, sheetFileMap, threadedCommentsFiles,
             sheetToThreadedComment, tcIndex, sheetComments, result,
             hasThreadedComments, tcError >>
exVars == << extracted, existingAddresses, threadedLen, scanIndex, thrown >>
cleanVars == << cleanIn, cleanOnce, cleanTwice, cleanBody, cleanPc >>
trVars == << trTexts, trKey, trRemote, trResult, trPc >>
noteVars == << noteIn, noteOut, notePc >>
vars == << disk, appVars, pc, file, tcVars, exVars, comments, lang, cleanVars, trVars, noteVars >>

Archive == file[1].archive

(***************************************************************************)
(* App.tsx: the file handlers.                                             *)
(***************************************************************************)
AlertXlsxOnly == "Vui long chi upload file Excel (.xlsx)"

\* lines 57-63
handleLocalFileSelect(f) ==
  /\ selectedLocalFile' = << f >>
  /\ extractedComments' = << >>
  /\ downloadUrl' = << >>
  /\ UNCHANGED << disk, isProcessing, targetLang, lastAlert, consoleError,
                  pc, file, tcVars, exVars, comments, lang, cleanVars, trVars, noteVars >>

\* lines 41-55
handleDrop(f) ==
  /\ IF EndsWith(f.name, S_xlsx)
     THEN /\ selectedLocalFile' = << f >>
          /\ extractedComments' = << >>
          /\ downloadUrl' = << >>
          /\ UNCHANGED lastAlert
     ELSE /\ lastAlert' = AlertXlsxOnly
          /\ UNCHANGED << selectedLocalFile, extractedComments, downloadUrl >>
  /\ UNCHANGED << disk, isProcessing, targetLang, consoleError,
                  pc, file, tcVars, exVars, comments, lang, cleanVars, trVars, noteVars >>

\* the language select
Languages == {"", "en"}

setTargetLang(l) ==
  /\ targetLang # l
  /\ targetLang' = l
  /\ UNCHANGED << disk, selectedLocalFile, extractedComments, isProcessing,
                  downloadUrl, lastAlert, consoleError,
                  pc, file, tcVars, exVars, comments, lang, cleanVars, trVars, noteVars >>

(***************************************************************************)
(* App.tsx: processFile, one action per stretch between two awaits.        *)
(***************************************************************************)
\* lines 65-69 with the button of lines 100-102
processFile ==
  /\ pc = "idle"
  /\ selectedLocalFile # << >>
  /\ ~isProcessing
  /\ isProcessing' = TRUE
  /\ downloadUrl' = << >>
  /\ file' = selectedLocalFile
  /\ pc' = "check"
  /\ thrown' = NoError
  /\ lang' = targetLang
  /\ UNCHANGED << disk, selectedLocalFile, extractedComments, targetLang,
                  lastAlert, consoleError, tcVars, extracted, existingAddresses,
                  threadedLen, scanIndex, comments, cleanVars, trVars, noteVars >>

\* excelService.ts lines 334-347
CheckFormat ==
  /\ pc = "check"
  /\ thrown' = FormatError(file[1].name)
  /\ pc' = IF FormatError(file[1].name) # NoError THEN "catch" ELSE "tc_begin"
  /\ extracted' = << >>
  /\ UNCHANGED << disk, appVars, file, tcVars, existingAddresses, threadedLen,
                  scanIndex, comments, lang, cleanVars, trVars, noteVars >>

\* excelService.ts lines 159-249; a read that rejects is caught at line 315
TcBegin ==
  /\ pc = "tc_begin"
  /\ result' = << >>
  /\ tcIndex' = 0
  /\ sheetComments' = << >>
  /\ LET names == LoadSheetNames(SheetElements(Archive), Len(SheetElements(Archive)))
         fmap == LoadSheetFileMap(RelationshipElements(Archive),
                                  Len(RelationshipElements(Archive)))
         files == threadedCommentsFilesOf(Archive.entries)
     IN  IF \/ ~Archive.zipOk
            \/ HeadReadRejects(Archive)
            \/ (Len(files) > 0 /\ SheetRelsReadRejects(Archive))
         THEN \* lines 315-317
              /\ hasThreadedComments' = FALSE
              /\ tcError' = TRUE
              /\ pc' = "threaded_pass"
              /\ persons' = << >>
              /\ sheetNames' = << >>
              /\ sheetFileMap' = << >>
              /\ threadedCommentsFiles' = << >>
              /\ sheetToThreadedComment' = << >>
         ELSE /\ persons' = LoadPersons(PersonElements(Archive), Len(PersonElements(Archive)))
              /\ sheetNames' = names
              /\ sheetFileMap' = fmap
              /\ threadedCommentsFiles' = files
              /\ tcError' = FALSE
              /\ IF Len(files) = 0
                 THEN \* lines 223-225
                      /\ hasThreadedComments' = FALSE
                      /\ pc' = "threaded_pass"
                      /\ sheetToThreadedComment' = << >>
                 ELSE /\ UNCHANGED hasThreadedComments
                      /\ pc' = "tc_parts"
                      /\ sheetToThreadedComment' =
                           LoadSheetToThreadedComment(Archive.sheetRels, ProbeMax, names, fmap)
  /\ UNCHANGED << disk, appVars, file, exVars, comments, lang, cleanVars, trVars, noteVars >>

\* excelService.ts lines 252-312, one iteration
TcParsePart ==
  /\ pc = "tc_parts"
  /\ tcIndex < Len(threadedCommentsFiles)
  /\ LET part == threadedCommentsFiles[tcIndex + 1]
         sheetName == ResolveSheetName(part.path, sheetToThreadedComment, sheetNames)
         recs == ParseComments(part.comments, Len(part.comments), sheetName, persons)
     IN  IF part.isDir
         THEN \* line 254: continue
              /\ sheetComments' = << >>
              /\ tcIndex' = tcIndex + 1
              /\ UNCHANGED << result, pc, hasThreadedComments, tcError >>
         ELSE IF ~part.readable
         THEN \* line 256 rejects: lines 315-317
              /\ hasThreadedComments' = FALSE
              /\ tcError' = TRUE
              /\ pc' = "threaded_pass"
              /\ UNCHANGED << result, sheetComments, tcIndex >>
         ELSE /\ sheetComments' = recs
              /\ result' = IF Len(recs) > 0 THEN MapSet(result, sheetName, recs) ELSE result
              /\ tcIndex' = tcIndex + 1
              /\ UNCHANGED << pc, hasThreadedComments, tcError >>
  /\ UNCHANGED << disk, appVars, file, persons, sheetNames, sheetFileMap,
                  threadedCommentsFiles, sheetToThreadedComment,
                  exVars, comments, lang, cleanVars, trVars, noteVars >>

\* excelService.ts line 314
TcEnd ==
  /\ pc = "tc_parts"
  /\ tcIndex = Len(threadedCommentsFiles)
  /\ hasThreadedComments' = TRUE
  /\ pc' = "threaded_pass"
  /\ UNCHANGED << disk, appVars, file, persons, sheetNames, sheetFileMap,
                  threadedCommentsFiles, sheetToThreadedComment, tcIndex,
                  sheetComments, result, tcError, exVars, comments, lang,
                  cleanVars, trVars, noteVars >>

\* excelService.ts lines 353-387
ThreadedPass ==
  /\ pc = "threaded_pass"
  /\ IF hasThreadedComments /\ ~Archive.xlsxOk
     THEN /\ thrown' = ErrLoad
          /\ pc' = "catch"
          /\ UNCHANGED extracted
     ELSE /\ extracted' = IF hasThreadedComments
                          THEN ThreadedRecords(Archive.worksheets, result, Len(result))
                          ELSE << >>
          /\ pc' = "legacy_pass"
          /\ UNCHANGED thrown
  /\ UNCHANGED << disk, appVars, file, tcVars, existingAddresses, threadedLen,
                  scanIndex, comments, lang, cleanVars, trVars, noteVars >>

\* excelService.ts lines 389-395
LegacyBegin ==
  /\ pc = "legacy_pass"
  /\ IF ~Archive.xlsxOk
     THEN /\ thrown' = ErrLoad
          /\ pc' = "catch"
          /\ UNCHANGED << existingAddresses, threadedLen >>
     ELSE /\ existingAddresses' = ExistingAddressesOf(extracted)
          /\ threadedLen' = Len(extracted)
          /\ pc' = "legacy_scan"
          /\ UNCHANGED thrown
  /\ scanIndex' = 0
  /\ UNCHANGED << disk, appVars, file, tcVars, extracted, comments, lang,
                  cleanVars, trVars, noteVars >>

\* excelService.ts lines 401-423, one cell; an error thrown at line 409
\* leaves eachCell, eachRow, eachSheet and extractCommentsFromFile
LegacyCell ==
  /\ pc = "legacy_scan"
  /\ scanIndex < Len(ScanOrder(Archive.worksheets, Len(Archive.worksheets)))
  /\ LET at == ScanOrder(Archive.worksheets, Len(Archive.worksheets))[scanIndex + 1]
     IN  IF LegacyCellThrows(at.sheetName, at.cell, existingAddresses)
         THEN /\ thrown' = ErrCellValue
              /\ pc' = "catch"
              /\ UNCHANGED extracted
         ELSE /\ extracted' = extracted \o
                     LegacyRecordsOfCell(at.sheetName, at.cell, existingAddresses)
              /\ UNCHANGED << pc, thrown >>
  /\ scanIndex' = scanIndex + 1
  /\ UNCHANGED << disk, appVars, file, tcVars, existingAddresses, threadedLen,
                  comments, lang, cleanVars, trVars, noteVars >>

\* excelService.ts lines 427-434 and App.tsx line 72
LegacyEnd ==
  /\ pc = "legacy_scan"
  /\ scanIndex = Len(ScanOrder(Archive.worksheets, Len(Archive.worksheets)))
  /\ comments' = extracted
  /\ pc' = "returned"
  /\ UNCHANGED << disk, appVars, file, tcVars, exVars, lang, cleanVars, trVars, noteVars >>

\* the remote services answering every request alike
AnswerAll(b, g, f, chunks) ==
  [batch |-> [c \in 1..chunks |-> b], gemini |-> g, free |-> f]

\* the services as the application meets them: in order, or out of reach
RemotesApp ==
  {AnswerAll("aligned", "text", "ok", 1), AnswerAll("rejects", "rejects", "rejects", 1)}

\* App.tsx lines 72-88
Publish ==
  /\ pc = "returned"
  /\ \E apiKey \in BOOLEAN, remote \in RemotesApp :
       LET list == IF lang # ""
                   THEN WithTranslations(comments,
                          translateBatch([i \in 1..Len(comments) |->
                                            comments[i].commentContent], apiKey, remote))
                   ELSE comments
       IN  /\ comments' = list
           /\ extractedComments' = list
  /\ pc' = "published"
  /\ UNCHANGED << disk, selectedLocalFile, isProcessing, downloadUrl, targetLang,
                  lastAlert, consoleError, file, tcVars, exVars, lang, cleanVars, trVars, noteVars >>

\* LinkOrNotFound with comments.length >= 0 as its test
LinkOrNotFound_AlwaysLink ==
  /\ pc = "published"
  /\ downloadUrl' = << comments >>
  /\ pc' = "finally"
  /\ UNCHANGED << disk, selectedLocalFile, extractedComments, isProcessing,
                  targetLang, lastAlert, consoleError, file, tcVars, exVars,
                  comments, lang, cleanVars, trVars, noteVars >>

\* App.tsx lines 90-96
LinkOrNotFound ==
  /\ pc = "published"
  /\ IF Len(comments) > 0
     THEN downloadUrl' = << comments >> /\ UNCHANGED lastAlert
     ELSE lastAlert' = AlertNotFound /\ UNCHANGED downloadUrl
  /\ pc' = "finally"
  /\ UNCHANGED << disk, selectedLocalFile, extractedComments, isProcessing,
                  targetLang, consoleError, file, tcVars, exVars, comments,
                  lang, cleanVars, trVars, noteVars >>

\* App.tsx lines 97-99
Catch ==
  /\ pc = "catch"
  /\ consoleError' = thrown
  /\ lastAlert' = AlertError
  /\ pc' = "finally"
  /\ UNCHANGED << disk, selectedLocalFile, extractedComments, isProcessing,
                  downloadUrl, targetLang, file, tcVars, exVars, comments,
                  lang, cleanVars, trVars, noteVars >>

\* App.tsx lines 100-103
Finally ==
  /\ pc = "finally"
  /\ isProcessing' = FALSE
  /\ pc' = "idle"
  /\ UNCHANGED << disk, selectedLocalFile, extractedComments, downloadUrl,
                  targetLang, lastAlert, consoleError, file, tcVars, exVars,
                  comments, lang, cleanVars, trVars, noteVars >>


(***************************************************************************)
(* The files of the model.                                                 *)
(***************************************************************************)
MaxElems == 2
MaxParts == 2

\* the sequences over S of length lo..hi
SeqsOf(S, lo, hi) == UNION {[1..n -> S] : n \in lo..hi}

T_A1 == <<"A","1">>
T_B2 == <<"B","2">>
T_p1 == <<"p","1">>
T_p2 == <<"p","2">>
T_Alice == <<"A","l","i","c","e">>
T_Bob == <<"B","o","b">>
T_Data == <<"D","a","t","a">>
T_Hi == <<"H","i">>
T_Note == <<"N","b">>
T_Blank == <<" ">>
T_Boiler == <<"=","=","=","I","D","#","a">>
T_val == <<"4","2">>

N_xlsx == <<"a">> \o S_xlsx
N_xlsm == <<"a">> \o S_xlsm
N_xls == <<"a">> \o S_xls
N_xlsb == <<"r","e","p","o","r","t">> \o S_xlsb
N_XLSB == <<"A",".","X","L","S","B">>
N_XLSX == <<"A",".","X","L","S","X">>

\* xl/threadedComments/threadedComment<suffix>.xml and the Target that a
\* sheet relationship file gives it
TcPath(suffix) == S_xlSlash \o S_tcPattern \o suffix \o S_dotXml
TcTarget(suffix) == S_dotdotSlash \o S_tcPattern \o suffix \o S_dotXml
P_comments1 == <<"x","l","/","c","o","m","m","e","n","t","s","1">> \o S_dotXml

\* worksheets/sheet<n>.xml, the Target of a workbook relationship
SheetTarget(n) == S_worksheetsSlash \o S_sheet \o NumStr(n) \o S_dotXml

SheetEl(name, n) == [name |-> name, rId |-> S_rId \o NumStr(n)]
RelEl(n) == [Id |-> S_rId \o NumStr(n), Target |-> SheetTarget(n)]

NoValue == [kind |-> "null"]
NoNote == [kind |-> "none"]
StringNote(t) == [kind |-> "string", text |-> t]
Cell(a, v, n) == [address |-> a, value |-> v, note |-> n]

EmptyArchive ==
  [zipOk |-> TRUE, xlsxOk |-> TRUE, persons |-> << >>, sheets |-> << >>,
   wbRels |-> << >>, sheetRels |-> << >>, entries |-> << >>, worksheets |-> << >>,
   missing |-> {}, broken |-> {}, brokenRels |-> {}]

\* an entry that is a file and can be read
Entry(path, els) == [path |-> path, comments |-> els, readable |-> TRUE, isDir |-> FALSE]

\* one sheet Data, linked to threadedComment1.xml through the whole chain
LinkedArchive(els, noteA1, noteB2) ==
  [EmptyArchive EXCEPT
     !.persons = << [id |-> T_p1, displayName |-> T_Alice] >>,
     !.sheets = << SheetEl(T_Data, 1) >>,
     !.wbRels = << RelEl(1) >>,
     !.sheetRels = << << TcTarget(<<"1">>) >> >>,
     !.entries = << Entry(TcPath(<<"1">>), els) >>,
     !.worksheets = << [name |-> T_Data,
                        cells |-> << Cell(T_A1, [kind |-> "string", text |-> T_val], noteA1),
                                     Cell(T_B2, NoValue, noteB2) >>] >>]

NoteChoices == {NoNote, StringNote(T_Note), StringNote(T_Boiler), StringNote(T_Blank)}

\* threadedComment elements
ElementsA == [ref : {T_A1, T_B2}, personId : {T_p1}, text : {T_Hi, T_Blank, T_Boiler}]

\* family A: threaded comments and legacy notes on the cells of one sheet
ArchivesA ==
  {LinkedArchive(els, nA, nB) :
     els \in SeqsOf(ElementsA, 0, MaxElems), nA \in NoteChoices, nB \in {NoNote, StringNote(T_Note)}}
  \cup {[LinkedArchive(<< >>, nA, NoNote) EXCEPT !.entries = << >>, !.sheetRels = << >>] :
          nA \in NoteChoices}

\* family B: the persons part against the personId of the comments
PersonsChoices ==
  { << >>,
    << [id |-> T_p1, displayName |-> T_Alice] >>,
    << [id |-> T_p1, displayName |-> << >>] >>,
    << [id |-> T_p2, displayName |-> T_Bob] >> }

ElementsB == [ref : {T_A1}, personId : {T_p1, T_p2, << >>}, text : {T_Hi}]

ArchivesB ==
  {[LinkedArchive(els, NoNote, NoNote) EXCEPT !.persons = ps] :
     els \in SeqsOf(ElementsB, 1, MaxElems), ps \in PersonsChoices}

\* family C: several parts and the ways their sheets are, or are not, linked
PartPaths ==
  {TcPath(<<"1">>), TcPath(<<"2">>), TcPath(<<"0","1">>), TcPath(<<"X">>), P_comments1}

\* the k-th entry holds one comment, whose text names k
EntriesOf(paths) ==
  [k \in 1..Len(paths) |->
     Entry(paths[k], << [ref |-> T_A1, personId |-> T_p1, text |-> <<"c">> \o NumStr(k)] >>)]

DistinctSeqs(S, lo, hi) ==
  {q \in SeqsOf(S, lo, hi) : \A i, j \in 1..Len(q) : i # j => q[i] # q[j]}

SheetsChoices ==
  { << >>,
    << SheetEl(T_Data, 1) >>,
    << SheetEl(T_Data, 3), [name |-> S_Sheet \o <<"2">>, rId |-> << >>] >>,
    << [name |-> T_Data, rId |-> << >>] >>,
    << SheetEl(UnknownSheet, 1) >> }

SheetRelsChoices ==
  { << >>,
    << << TcTarget(<<"1">>) >> >>,
    << << TcTarget(<<"1">>) >>, << TcTarget(<<"2">>) >> >> }

WorksheetsOf(sheets) ==
  [k \in 1..Len(sheets) |->
     [name |-> sheets[k].name,
      cells |-> << Cell(T_A1, NoValue, IF k = 1 THEN StringNote(T_Note) ELSE NoNote) >>]]

ArchivesC ==
  {[EmptyArchive EXCEPT
      !.persons = << [id |-> T_p1, displayName |-> T_Alice] >>,
      !.sheets = sh,
      !.wbRels = wr,
      !.sheetRels = sr,
      !.entries = EntriesOf(paths),
      !.worksheets = WorksheetsOf(sh)] :
     paths \in DistinctSeqs(PartPaths, 1, MaxParts),
     sh \in SheetsChoices,
     wr \in {<< >>, << RelEl(1) >>},
     sr \in SheetRelsChoices}

\* family D: file names against containers
NotAZip == [EmptyArchive EXCEPT !.zipOk = FALSE, !.xlsxOk = FALSE]
NotAWorkbook ==
  [EmptyArchive EXCEPT !.xlsxOk = FALSE, !.entries = EntriesOf(<< TcPath(<<"1">>) >>)]
SmallArchive == LinkedArchive(<< [ref |-> T_A1, personId |-> T_p1, text |-> T_Hi] >>,
                              NoNote, StringNote(T_Note))

FileNames == {N_xlsx, N_xlsm, N_xls, N_xlsb, N_XLSB, N_XLSX}

\* a workbook without any comment: no threaded-comment part, no note
NoComments ==
  [LinkedArchive(<< >>, NoNote, NoNote) EXCEPT !.entries = << >>, !.sheetRels = << >>]

FilesD ==
  [name : FileNames,
   archive : {NotAZip, NotAWorkbook, SmallArchive, EmptyArchive, NoComments}]

\* family R: one threaded comment D16 / p1 / Hello, Alice among the persons,
\* no legacy note; the part is linked, unlinked or without numeric suffix
T_D16 == <<"D","1","6">>
T_Hello == <<"H","e","l","l","o">>

HyperlinkWithoutText == [kind |-> "hyperlink", textDefined |-> FALSE, text |-> << >>]

HelloElement == [ref |-> T_D16, personId |-> T_p1, text |-> T_Hello]

ArchivesR ==
  {[EmptyArchive EXCEPT
      !.persons = ps,
      !.sheets = sh,
      !.wbRels = wr,
      !.sheetRels = sr,
      !.entries = << Entry(path, << HelloElement >>) >>,
      !.worksheets = [k \in 1..Len(sh) |->
                        [name |-> sh[k].name, cells |-> << Cell(T_D16, v, NoNote) >>]]] :
     ps \in { << [id |-> T_p1, displayName |-> T_Alice] >>,
              << [id |-> T_p2, displayName |-> T_Bob],
                 [id |-> T_p1, displayName |-> T_Alice] >> },
     sh \in SheetsChoices,
     wr \in {<< >>, << RelEl(1) >>},
     sr \in {<< >>, << << TcTarget(<<"1">>) >> >>},
     path \in {TcPath(<<"1">>), TcPath(<<"X">>)},
     v \in {NoValue, [kind |-> "string", text |-> T_val], HyperlinkWithoutText}}

\* family E: three parts in every archive order, two of which get the same
\* sheet name, and two worksheets with notes
T_Sheet1 == S_Sheet \o <<"1">>
T_Sheet2 == S_Sheet \o <<"2">>

ArchivesE ==
  {[EmptyArchive EXCEPT
      !.persons = << [id |-> T_p1, displayName |-> T_Alice] >>,
      !.sheets = sh,
      !.entries = EntriesOf(paths),
      !.worksheets =
        << [name |-> T_Sheet1,
            cells |-> << Cell(T_A1, NoValue, StringNote(T_Note)),
                         Cell(T_B2, NoValue, StringNote(T_Hi)) >>],
           [name |-> T_Sheet2,
            cells |-> << Cell(T_B2, NoValue, StringNote(T_Note)) >>] >>] :
     paths \in DistinctSeqs({TcPath(<<"1">>), TcPath(<<"2">>), TcPath(<<"0","1">>)}, 3, 3),
     sh \in {<< >>, << SheetEl(T_Sheet2, 2) >>}}

\* family F: parts that are missing or cannot be read. The entries are
\* files, files whose read rejects, or folders; the sheets Data and Sheet2
\* own threadedComment1.xml and threadedComment2.xml
EntryKinds == {"file", "unreadable", "dir"}

EntryOfKind(k, kind) ==
  IF kind = "dir"
  THEN [path |-> TcPath(NumStr(k)) \o <<"/">>, comments |-> << >>,
        readable |-> TRUE, isDir |-> TRUE]
  ELSE [Entry(TcPath(NumStr(k)),
              << [ref |-> T_A1, personId |-> T_p1, text |-> <<"c">> \o NumStr(k)] >>)
          EXCEPT !.readable = (kind = "file")]

EntriesF ==
  { << >>, << Entry(P_comments1, << >>) >> }
  \cup {[k \in 1..Len(kinds) |-> EntryOfKind(k, kinds[k])] :
          kinds \in SeqsOf(EntryKinds, 1, MaxParts)}

ArchivesF ==
  {[EmptyArchive EXCEPT
      !.persons = << [id |-> T_p1, displayName |-> T_Alice] >>,
      !.sheets = << SheetEl(T_Data, 1), SheetEl(T_Sheet2, 2) >>,
      !.wbRels = << RelEl(1), RelEl(2) >>,
      !.sheetRels = sr,
      !.entries = es,
      !.worksheets = << [name |-> T_Data,
                         cells |-> << Cell(T_B2, NoValue, StringNote(T_Note)) >>] >>,
      !.missing = mi,
      !.broken = br,
      !.brokenRels = bs] :
     sr \in { << >>, << << TcTarget(<<"1">>) >> >>, (2 :> << TcTarget(<<"2">>) >>),
              << << TcTarget(<<"1">>) >>, << TcTarget(<<"2">>) >> >> },
     es \in EntriesF,
     mi \in SUBSET {"persons", "wbRels"},
     br \in { {}, {"persons"}, {"workbook"}, {"wbRels"} },
     bs \in { {}, {1} }}

\* family G: cells whose value cannot be converted, with and without a
\* threaded comment and a note on them
ValueChoices == {NoValue, [kind |-> "string", text |-> T_val], HyperlinkWithoutText}

ArchivesG ==
  {[LinkedArchive(els, NoNote, NoNote) EXCEPT
      !.worksheets = << [name |-> T_Data,
                         cells |-> << Cell(T_A1, vA, nA), Cell(T_B2, vB, nB) >>] >>] :
     els \in SeqsOf([ref : {T_A1, T_B2}, personId : {T_p1}, text : {T_Hi}], 0, 1),
     vA \in ValueChoices, vB \in ValueChoices,
     nA \in {NoNote, StringNote(T_Note)}, nB \in {NoNote, StringNote(T_Note)}}

\* the files extractCommentsFromFile is called with
Files ==
  [name : {N_xlsx},
   archive : ArchivesA \cup ArchivesB \cup ArchivesC \cup ArchivesR \cup ArchivesE
               \cup ArchivesF \cup ArchivesG]
    \cup FilesD

\* the files the user of the application can pick
FilesApp == FilesD

\* two workbooks with comments side by side, for the user to pick in turn
N_b_xlsx == <<"b">> \o S_xlsx
OtherArchive == LinkedArchive(<< [ref |-> T_B2, personId |-> T_p1, text |-> T_Hello] >>,
                              NoNote, NoNote)
TwoFiles ==
  {[name |-> N_xlsx, archive |-> SmallArchive], [name |-> N_b_xlsx, archive |-> OtherArchive]}

(***************************************************************************)
(* The specification of the application.                                   *)
(***************************************************************************)
CleanIdle ==
  /\ cleanIn = << >>
  /\ cleanOnce = << >>
  /\ cleanTwice = << >>
  /\ cleanBody = << >>
  /\ cleanPc = "off"

NoteIdle ==
  /\ noteIn = [kind |-> "none"]
  /\ noteOut = [text |-> << >>, author |-> << >>]
  /\ notePc = "off"

TranslateIdle ==
  /\ trTexts = << >>
  /\ trKey = FALSE
  /\ trRemote = << >>
  /\ trResult = << >>
  /\ trPc = "off"

\* everything but disk, file and pc
Idle ==
  /\ selectedLocalFile = << >>
  /\ extractedComments = << >>
  /\ isProcessing = FALSE
  /\ downloadUrl = << >>
  /\ targetLang = ""
  /\ lastAlert = NoAlert
  /\ consoleError = NoError
  /\ persons = << >>
  /\ sheetNames = << >>
  /\ sheetFileMap = << >>
  /\ threadedCommentsFiles = << >>
  /\ sheetToThreadedComment = << >>
  /\ tcIndex = 0
  /\ sheetComments = << >>
  /\ result = << >>
  /\ hasThreadedComments = FALSE
  /\ tcError = FALSE
  /\ extracted = << >>
  /\ existingAddresses = {}
  /\ threadedLen = 0
  /\ scanIndex = 0
  /\ thrown = NoError
  /\ comments = << >>
  /\ lang = ""

Init ==
  /\ \/ \E f \in FilesApp : disk = {f}
     \/ disk = TwoFiles
  /\ pc = "idle"
  /\ file = << >>
  /\ Idle
  /\ CleanIdle
  /\ TranslateIdle
  /\ NoteIdle

Next ==
  \/ \E f \in disk : handleLocalFileSelect(f)
  \/ \E f \in disk : handleDrop(f)
  \/ \E l \in Languages : setTargetLang(l)
  \/ processFile
  \/ CheckFormat
  \/ TcBegin
  \/ TcParsePart
  \/ TcEnd
  \/ ThreadedPass
  \/ LegacyBegin
  \/ LegacyCell
  \/ LegacyEnd
  \/ Publish
  \/ LinkOrNotFound
  \/ Catch
  \/ Finally

Spec == Init /\ [][Next]_vars

(***************************************************************************)
(* extractCommentsFromFile on its own: one call, from the format check to  *)
(* the return or the throw.                                                *)
(***************************************************************************)
InitExtract ==
  /\ disk = {}
  /\ \E f \in Files : file = << f >>
  /\ pc = "check"
  /\ Idle
  /\ CleanIdle
  /\ TranslateIdle
  /\ NoteIdle

NextExtract ==
  \/ CheckFormat
  \/ TcBegin
  \/ TcParsePart
  \/ TcEnd
  \/ ThreadedPass
  \/ LegacyBegin
  \/ LegacyCell
  \/ LegacyEnd

SpecExtract == InitExtract /\ [][NextExtract]_vars

(***************************************************************************)
(* cleanCommentContent on its own.                                         *)
(***************************************************************************)
MaxBanner == 4
MaxTag == 2

Alphabet == {"=", " ", "\n", "I", "D", "#"}
BodyAlphabet == Alphabet \cup {"x", "\r"}
TagAlphabet == {"a", "-"}
Breaks == { <<"\n">>, <<"\r", "\n">> }

\* n times the character c
Repeat(c, n) == [i \in 1..n |-> c]

\* a run of three or more '='
HasBanner(s) == \E i \in 1..Len(s) : RunLen(s, i, {"="}) >= 3

\* ID# followed by at least one tag character
HasIdTag(s) == \E i \in 1..Len(s) : HasIdHash(s, i) /\ RunLen(s, i + 3, TagChar) >= 1

Bodies == {b \in SeqsOf(BodyAlphabet, 0, MaxBody) : ~HasBanner(b) /\ ~HasIdTag(b)}

BannerTagBody(n, br, tag, body) ==
  Repeat("=", n) \o br \o <<"I", "D", "#">> \o tag \o br \o body

\* "======\nID#AAABu7X_-hw\nActual comment text"
ExampleTag == <<"A","A","A","B","u","7","X","_","-","h","w">>
ExampleBody ==
  <<"A","c","t","u","a","l"," ","c","o","m","m","e","n","t"," ","t","e","x","t">>

\* "x=== ===ID#a ID#b": removing the banner and tag in the middle leaves the
\* first banner next to the second tag
ExampleAdjacent ==
  <<"x","=","=","="," ","=","=","=","I","D","#","a"," ","I","D","#","b">>

InitClean ==
  /\ disk = {}
  /\ pc = "idle"
  /\ file = << >>
  /\ Idle
  /\ cleanPc = "start"
  /\ cleanOnce = << >>
  /\ cleanTwice = << >>
  /\ TranslateIdle
  /\ NoteIdle
  /\ \/ /\ cleanIn \in SeqsOf(Alphabet, 0, MaxLen) \cup {ExampleAdjacent}
        /\ cleanBody = << >>
     \/ \E n \in 3..MaxBanner, br \in Breaks, tag \in SeqsOf(TagAlphabet, 1, MaxTag),
           body \in Bodies :
          /\ cleanIn = BannerTagBody(n, br, tag, body)
          /\ cleanBody = << body >>
     \/ /\ cleanIn = BannerTagBody(6, <<"\n">>, ExampleTag, ExampleBody)
        /\ cleanBody = << ExampleBody >>

\* cleaned = cleanCommentContent(text)
CleanOnce ==
  /\ cleanPc = "start"
  /\ cleanOnce' = cleanCommentContent(cleanIn)
  /\ cleanPc' = "once"
  /\ UNCHANGED << disk, appVars, pc, file, tcVars, exVars, comments, lang,
                  cleanIn, cleanTwice, cleanBody, trVars, noteVars >>

\* cleanCommentContent(cleaned)
CleanTwice ==
  /\ cleanPc = "once"
  /\ cleanTwice' = cleanCommentContent(cleanOnce)
  /\ cleanPc' = "twice"
  /\ UNCHANGED << disk, appVars, pc, file, tcVars, exVars, comments, lang,
                  cleanIn, cleanOnce, cleanBody, trVars, noteVars >>

NextClean == CleanOnce \/ CleanTwice

SpecClean == InitClean /\ [][NextClean]_vars

(***************************************************************************)
(* translateBatch on its own: one call with some list of texts, with or    *)
(* without API key, against remote services that answer in any of the ways *)
(* the code distinguishes.                                                 *)
(***************************************************************************)
MaxTexts == 22

MaxChunks == (MaxTexts + BATCH_SIZE - 1) \div BATCH_SIZE

\* the i-th text of a list; the texts of a list differ from each other
Text(i) == <<"t">> \o NumStr(i)

\* n texts, the one at blankAt being white space only
TextsOf(n, blankAt) == [i \in 1..n |-> IF i = blankAt THEN <<" ">> ELSE Text(i)]

\* list lengths around zero and around the chunk size
TextLengths == {0, 1, 2} \cup ((BATCH_SIZE - 1)..MaxTexts)

Remotes ==
  [batch : [1..MaxChunks -> BatchReplies], gemini : GeminiReplies, free : FreeReplies]

InitTranslate ==
  /\ disk = {}
  /\ pc = "idle"
  /\ file = << >>
  /\ Idle
  /\ CleanIdle
  /\ trPc = "start"
  /\ \E n \in TextLengths, blankAt \in {0, 1} : trTexts = TextsOf(n, blankAt)
  /\ trKey \in BOOLEAN
  /\ trRemote \in Remotes
  /\ trResult = << >>
  /\ NoteIdle

\* translatedTexts = await translateBatch(texts, targetLang)
TranslateBatch ==
  /\ trPc = "start"
  /\ trResult' = translateBatch(trTexts, trKey, trRemote)
  /\ trPc' = "resolved"
  /\ UNCHANGED << disk, appVars, pc, file, tcVars, exVars, comments, lang,
                  cleanVars, trTexts, trKey, trRemote, noteVars >>

NextTranslate == TranslateBatch

SpecTranslate == InitTranslate /\ [][NextTranslate]_vars

(***************************************************************************)
(* getCommentContent on its own: one call with a note of any of the shapes *)
(* the code distinguishes, several properties being present at once.       *)
(***************************************************************************)
MaxRuns == 2

Absent == [kind |-> "absent"]
Str(t) == [kind |-> "string", text |-> t]
Obj(j) == [kind |-> "object", json |-> j]

T_AnnColon == <<"A","n","n",":"," ">>
T_colonX == <<":","x">>
T_Body == <<"B","o","d","y">>
T_Txt == <<"T","x">>
J_obj == <<"{">> \o Quote(<<"a">>) \o <<":","1","}">>

RunTexts == {<< >>, T_AnnColon, T_colonX, T_Body}

ObjectNotes ==
  [kind : {"object"},
   texts : {Absent, Str(T_Body)} \cup {[kind |-> "runs", runs |-> r] : r \in SeqsOf(RunTexts, 0, MaxRuns)},
   note : {Absent, Str(<< >>), Str(T_Note), Str(T_Blank), Obj(J_obj)},
   text : {Absent, Str(<< >>), Str(T_Txt), Obj(J_obj)}]

Notes == {NoNote, StringNote(<< >>), StringNote(T_Note), StringNote(T_AnnColon \o T_Body)}
           \cup ObjectNotes

InitNote ==
  /\ disk = {}
  /\ pc = "idle"
  /\ file = << >>
  /\ Idle
  /\ CleanIdle
  /\ TranslateIdle
  /\ noteIn \in Notes
  /\ noteOut = [text |-> << >>, author |-> << >>]
  /\ notePc = "start"

\* const { text, author } = getCommentContent(cell.note)
GetCommentContent ==
  /\ notePc = "start"
  /\ noteOut' = getCommentContent(noteIn)
  /\ notePc' = "returned"
  /\ UNCHANGED << disk, appVars, pc, file, tcVars, exVars, comments, lang,
                  cleanVars, trVars, noteIn >>

NextNote == GetCommentContent

SpecNote == InitNote /\ [][NextNote]_vars

(***************************************************************************)
(* Claims.                                                                 *)
(***************************************************************************)
SamePair(a, b) == a.sheetName = b.sheetName /\ a.cellAddress = b.cellAddress

\* the text of a note that the legacy pass would report
NoteIsReportable(cell) ==
  HasNote(cell) /\ Len(Trim(getCommentContent(cell.note).text)) > 0

\* the workbook holds a reportable note on the cell of record r
NoteAt(r) ==
  \E w \in 1..Len(Archive.worksheets) :
    /\ Archive.worksheets[w].name = r.sheetName
    /\ \E c \in 1..Len(Archive.worksheets[w].cells) :
         /\ Archive.worksheets[w].cells[c].address = r.cellAddress
         /\ NoteIsReportable(Archive.worksheets[w].cells[c])

\* C1: in the list extractCommentsFromFile returns, no (sheetName,
\* cellAddress) pair has both a record of the threaded-comment pass and a
\* record of the legacy-note pass.
C1_NoPairFromBothPasses ==
  pc = "returned" =>
    \A i \in 1..threadedLen : \A j \in (threadedLen + 1)..Len(extracted) :
      ~SamePair(extracted[i], extracted[j])

\* a threaded record sits on a cell that also carries a reportable note, and
\* the legacy pass reported some other cell
C1_Witness ==
  /\ pc = "returned"
  /\ \E i \in 1..threadedLen : NoteAt(extracted[i])
  /\ Len(extracted) > threadedLen

\* C2 as stated: each (sheetName, cellAddress) pair of the output occurs in
\* exactly one output record.
C2_PairOccursOnce ==
  pc = "returned" =>
    \A i, j \in 1..Len(extracted) : i # j => ~SamePair(extracted[i], extracted[j])

\* C2 amended: two output records share a (sheetName, cellAddress) pair only
\* when both are records of the threaded-comment pass (one per threadedComment
\* element with that ref); a pair never has two legacy records, nor a
\* threaded and a legacy record.
C2_PairRepeatsOnlyAmongThreaded ==
  pc = "returned" =>
    \A i, j \in 1..Len(extracted) :
      (i # j /\ SamePair(extracted[i], extracted[j])) => (i <= threadedLen /\ j <= threadedLen)

\* two threaded records on one cell that also carries a reportable note
C2_Witness ==
  /\ pc = "returned"
  /\ \E i, j \in 1..threadedLen :
       i # j /\ SamePair(extracted[i], extracted[j]) /\ NoteAt(extracted[i])
  /\ Len(extracted) > threadedLen

\* C3: every record of the output of extractCommentsFromFile has a
\* commentContent that is not empty.
C3_ContentNotEmpty ==
  pc = "returned" => \A i \in 1..Len(extracted) : extracted[i].commentContent # << >>

\* C4: cleanCommentContent(cleanCommentContent(x)) = cleanCommentContent(x).
C4_CleanIdempotent == cleanPc = "twice" => cleanTwice = cleanOnce

\* C5: for a banner of three or more '=', a line break, an ID# tag, a line
\* break and a body without banner and without ID# tag, cleanCommentContent
\* returns the body trimmed.
C5_BannerTagGivesBody ==
  (cleanPc \in {"once", "twice"} /\ cleanBody # << >>) => cleanOnce = Trim(cleanBody[1])

\* the example of the claim
C5_Witness ==
  /\ cleanPc = "once"
  /\ cleanIn = BannerTagBody(6, <<"\n">>, ExampleTag, ExampleBody)
  /\ cleanOnce = ExampleBody

UnsupportedName(name) ==
  EndsWith(ToLowerCase(name), S_xlsb) \/ EndsWith(ToLowerCase(name), S_xls)

\* the elements of a part whose trimmed text is not empty, in document order
Reportable(els) == SelectSeq(els, LAMBDA e : Trim(e.text) # << >>)

\* personId is not a key of the persons map, or the person has no displayName
PersonUnknown(personId) ==
  \/ \A k \in 1..Len(Archive.persons) : Archive.persons[k].id # personId
  \/ \E k \in 1..Len(Archive.persons) :
       /\ Archive.persons[k].id = personId
       /\ Archive.persons[k].displayName = << >>
       /\ \A l \in (k + 1)..Len(Archive.persons) : Archive.persons[l].id # personId

Unresolved(path) ==
  /\ ~MapHas(sheetToThreadedComment, path)
  /\ \/ MatchSuffix(path) = << >>
     \/ ~MapHas(sheetNames, S_rId \o NumStr(ParseInt(MatchSuffix(path))))

\* C7: every threadedComment element with non-empty trimmed text of a part
\* that no fallback resolves has its record in the output of
\* extractCommentsFromFile, under the synthesized sheet name.
C7_UnresolvedPartsKept ==
  pc = "returned" =>
    \A p \in 1..Len(threadedCommentsFiles) :
      Unresolved(threadedCommentsFiles[p].path) =>
        \A e \in 1..Len(threadedCommentsFiles[p].comments) :
          LET el == threadedCommentsFiles[p].comments[e]
          IN  Trim(el.text) # << >> =>
                \E i \in 1..Len(extracted) :
                  /\ extracted[i].sheetName =
                       ResolveSheetName(threadedCommentsFiles[p].path,
                                        sheetToThreadedComment, sheetNames)
                  /\ extracted[i].cellAddress = el.ref
                  /\ extracted[i].commentContent = cleanCommentContent(Trim(el.text))

\* C8: a file whose lower-cased name ends in .xlsb or .xls is rejected with
\* the error that names its format, before any part of it is parsed, and no
\* record and no link is produced.
C8_RejectedBeforeParsing ==
  (file # << >> /\ UnsupportedName(file[1].name) /\ pc # "check") =>
    /\ pc \in {"catch", "finally", "idle"}
    /\ thrown = IF EndsWith(ToLowerCase(file[1].name), S_xlsb) THEN ErrXlsb ELSE ErrXls
    /\ thrown \notin {NoError, ErrLoad}
    /\ persons = << >> /\ sheetNames = << >> /\ sheetFileMap = << >>
    /\ threadedCommentsFiles = << >> /\ result = << >>
    /\ ~hasThreadedComments
    /\ extracted = << >> /\ comments = << >>
    /\ extractedComments = << >> /\ downloadUrl = << >>

\* report.xlsb, holding a workbook with comments, was rejected
C8_Witness ==
  /\ pc = "catch"
  /\ file = << [name |-> N_xlsb, archive |-> SmallArchive] >>
  /\ thrown = ErrXlsb

\* a supported name, a readable container, no threaded-comment part and no
\* legacy note
NothingToFind(f) ==
  /\ ~UnsupportedName(f.name)
  /\ f.archive.zipOk /\ f.archive.xlsxOk
  /\ Len(threadedCommentsFilesOf(f.archive.entries)) = 0
  /\ \A w \in 1..Len(f.archive.worksheets) :
       \A c \in 1..Len(f.archive.worksheets[w].cells) :
         ~HasNote(f.archive.worksheets[w].cells[c])

\* what holds of every state of a run on such a file
C9_StateInv ==
  (file # << >> /\ NothingToFind(file[1])) =>
    /\ pc # "catch"
    /\ thrown = NoError
    /\ pc = "returned" => extracted = << >>
    /\ pc \in {"returned", "published", "finally"} => comments = << >>
    /\ downloadUrl = << >>
    /\ AlertNotFound # AlertError

\* C9: for a readable archive without threaded-comment parts and without
\* legacy notes, extractCommentsFromFile returns the empty list and does not
\* throw; processFile then shows the not-found alert, which is not the alert
\* of a failure, and sets no download link.
C9_NothingFoundSignal ==
  /\ []C9_StateInv
  /\ [][(file # << >> /\ NothingToFind(file[1]) /\ pc = "published" /\ pc' = "finally")
          => (lastAlert' = AlertNotFound /\ downloadUrl' = << >>)]_vars

\* the not-found alert is up after the extraction of such a file
C9_Witness ==
  /\ pc = "finally"
  /\ file # << >> /\ NothingToFind(file[1])
  /\ Len(file[1].archive.worksheets) > 0
  /\ lastAlert = AlertNotFound

\* C10: when extraction fails, the alert processFile shows states the
\* reason of the failure.
C10_AlertStatesReason ==
  [][(pc = "catch" /\ pc' = "finally") => lastAlert' = thrown]_vars

\* the container and every part of it can be read
Readable(a) ==
  /\ a.zipOk /\ a.xlsxOk
  /\ a.broken = {} /\ a.brokenRels = {}
  /\ \A k \in 1..Len(a.entries) : a.entries[k].readable

\* no cell of the workbook carries a note
NoLegacyNotes(a) ==
  \A w \in 1..Len(a.worksheets) :
    \A c \in 1..Len(a.worksheets[w].cells) : ~HasNote(a.worksheets[w].cells[c])

\* the archive of the round trip: one threaded-comment part with the one
\* comment D16 / p1 / Hello, a persons part with p1 as Alice, no legacy note
IsRoundTrip(a) ==
  /\ Readable(a)
  /\ Len(threadedCommentsFilesOf(a.entries)) = 1
  /\ ~threadedCommentsFilesOf(a.entries)[1].isDir
  /\ threadedCommentsFilesOf(a.entries)[1].comments = << HelloElement >>
  /\ "persons" \notin a.missing
  /\ \E k \in 1..Len(a.persons) :
       /\ a.persons[k] = [id |-> T_p1, displayName |-> T_Alice]
       /\ \A l \in 1..Len(a.persons) : a.persons[l].id = T_p1 => l = k
  /\ NoLegacyNotes(a)

\* C11: for the archive of the round trip, extractCommentsFromFile does not
\* throw and returns exactly one record, with cellAddress "D16", author
\* "Alice" and commentContent "Hello".
C11_RoundTrip ==
  (~UnsupportedName(file[1].name) /\ IsRoundTrip(Archive)) =>
    /\ pc # "catch"
    /\ pc = "returned" =>
         /\ Len(extracted) = 1
         /\ extracted[1].cellAddress = T_D16
         /\ extracted[1].author = T_Alice
         /\ extracted[1].commentContent = T_Hello

\* the round trip on a part linked to the sheet Data, whose cell D16 holds 42
C11_Witness ==
  /\ pc = "returned"
  /\ IsRoundTrip(Archive)
  /\ extracted = << [sheetName |-> T_Data, cellAddress |-> T_D16,
                     originalContent |-> T_val, commentContent |-> T_Hello,
                     author |-> T_Alice] >>

\* a is b without some of its elements, in the order of b
RECURSIVE IsSubseq(_, _)
IsSubseq(a, b) ==
  IF a = << >> THEN TRUE
  ELSE IF b = << >> THEN FALSE
  ELSE IF Head(a) = Head(b) THEN IsSubseq(Tail(a), Tail(b))
  ELSE IsSubseq(a, Tail(b))

\* cell address and content of the records i..j of the output
OutputPairs(i, j) ==
  [k \in 1..(j - i + 1) |->
     << extracted[i + k - 1].cellAddress, extracted[i + k - 1].commentContent >>]

\* the threaded comments of the archive: the parts in the order the archive
\* enumerates them, the elements of a part in document order
RECURSIVE ThreadedInArchiveOrder(_, _)
ThreadedInArchiveOrder(parts, n) ==
  IF n = 0 THEN << >>
  ELSE LET els == Reportable(parts[n].comments)
       IN  ThreadedInArchiveOrder(parts, n - 1)
             \o [k \in 1..Len(els) |->
                   << els[k].ref, cleanCommentContent(Trim(els[k].text)) >>]

\* the notes of the workbook by worksheet, then row and cell
RECURSIVE NotesInScanOrder(_, _)
NotesInScanOrder(worksheets, n) ==
  IF n = 0 THEN << >>
  ELSE LET noted == SelectSeq(worksheets[n].cells, NoteIsReportable)
       IN  NotesInScanOrder(worksheets, n - 1)
             \o [k \in 1..Len(noted) |->
                   << noted[k].address,
                      cleanCommentContent(getCommentContent(noted[k].note).text) >>]

\* C12: in the output of extractCommentsFromFile the records of the
\* threaded-comment pass come first, in the order in which the archive
\* enumerates their parts and in document order within a part; the records
\* of the legacy-note pass follow, in worksheet, row, cell order.
C12_OutputOrder ==
  pc = "returned" =>
    /\ IsSubseq(OutputPairs(1, threadedLen),
                ThreadedInArchiveOrder(threadedCommentsFilesOf(Archive.entries),
                                       Len(threadedCommentsFilesOf(Archive.entries))))
    /\ IsSubseq(OutputPairs(threadedLen + 1, Len(extracted)),
                NotesInScanOrder(Archive.worksheets, Len(Archive.worksheets)))

\* C13: the flag hasThreadedComments that extractThreadedComments returns is
\* true exactly when the archive has an entry whose path matches the
\* threaded-comment naming pattern, whatever the parts yield and whether or
\* not reading a part fails.
C13_FlagIffPartExists ==
  (pc = "threaded_pass" /\ Archive.zipOk) =>
    (hasThreadedComments <=>
       \E k \in 1..Len(Archive.entries) : Includes(Archive.entries[k].path, S_tcPattern))

\* a threaded-comment part that is not there: a folder of that name, or the
\* Target of a sheet relationship that no entry of the archive has
PartMissing(a) ==
  \/ \E k \in 1..Len(a.entries) : a.entries[k].isDir
  \/ \E i \in DOMAIN a.sheetRels : \E t \in 1..Len(a.sheetRels[i]) :
       /\ Includes(a.sheetRels[i][t], S_tcPattern)
       /\ \A k \in 1..Len(a.entries) :
            a.entries[k].path # ReplaceFirst(a.sheetRels[i][t], S_dotdotSlash, S_xlSlash)

\* the relationship file of a sheet of the manifest is not there
SheetRelsMissing(a) == \E i \in 1..Len(a.sheets) : i \notin DOMAIN a.sheetRels

\* no cell that carries a note has a value whose conversion throws
NotesReadable(a) ==
  \A w \in 1..Len(a.worksheets) : \A c \in 1..Len(a.worksheets[w].cells) :
    HasNote(a.worksheets[w].cells[c]) => ~getCellValueThrows(a.worksheets[w].cells[c])

\* a file with a supported name whose container and parts can all be read
\* and that lacks an optional part
C14_Case ==
  /\ ~UnsupportedName(file[1].name)
  /\ Readable(Archive)
  /\ NotesReadable(Archive)
  /\ \/ "persons" \in Archive.missing
     \/ "wbRels" \in Archive.missing
     \/ SheetRelsMissing(Archive)
     \/ PartMissing(Archive)

\* C14: when the persons part, the workbook relationship file, a sheet's
\* relationship file or a threaded-comment part is missing, nothing is
\* thrown and the catch of extractThreadedComments does not run: the missing
\* part gives an empty map or no records, and the call of
\* extractCommentsFromFile is never cut short on its way to returning its
\* list.
C14_MissingPartsTolerated ==
  C14_Case =>
    /\ ~tcError
    /\ thrown = NoError
    /\ pc # "catch"
    /\ (pc = "tc_parts" /\ "persons" \in Archive.missing) => persons = << >>
    /\ (pc = "tc_parts" /\ "wbRels" \in Archive.missing) => sheetFileMap = << >>
    /\ (pc = "tc_parts" /\ tcIndex >= 1 /\ threadedCommentsFiles[tcIndex].isDir)
         => sheetComments = << >>
    /\ (pc = "threaded_pass" /\ Len(threadedCommentsFiles) > 0) => hasThreadedComments
    /\ pc = "tc_parts" => tcIndex <= Len(threadedCommentsFiles)
    /\ pc = "legacy_scan" =>
         scanIndex <= Len(ScanOrder(Archive.worksheets, Len(Archive.worksheets)))

\* a list was returned for an archive without persons part and without
\* workbook relationship file, one of whose threaded-comment entries is a
\* folder and another one gave a record
C14_Witness ==
  /\ pc = "returned"
  /\ C14_Case
  /\ Archive.missing = {"persons", "wbRels"}
  /\ \E k \in 1..Len(Archive.entries) : Archive.entries[k].isDir
  /\ threadedLen > 0
  /\ extracted[1].author = UnknownAuthor

\* the output holds the record of element el
InOutput(el) ==
  \E i \in 1..Len(extracted) :
    /\ extracted[i].cellAddress = el.ref
    /\ extracted[i].commentContent = cleanCommentContent(Trim(el.text))

\* the read of some threaded-comment part rejects, while the container and
\* the other parts can be read
OnePartUnreadable(a) ==
  /\ a.zipOk /\ a.xlsxOk
  /\ ~HeadReadRejects(a) /\ ~SheetRelsReadRejects(a)
  /\ \E k \in 1..Len(a.entries) :
       /\ Includes(a.entries[k].path, S_tcPattern)
       /\ ~a.entries[k].isDir
       /\ ~a.entries[k].readable

\* C15: when the read of one threaded-comment part fails, only that part
\* contributes nothing: every threadedComment element with non-empty trimmed
\* text of each part that can be read has its record in the output of
\* extractCommentsFromFile, and extractCommentsFromFile does not throw.
C15_OtherPartsKept ==
  (~UnsupportedName(file[1].name) /\ OnePartUnreadable(Archive) /\ NotesReadable(Archive)) =>
    /\ pc # "catch"
    /\ pc = "returned" =>
         \A k \in 1..Len(Archive.entries) :
           (/\ Includes(Archive.entries[k].path, S_tcPattern)
            /\ ~Archive.entries[k].isDir
            /\ Archive.entries[k].readable) =>
             \A e \in 1..Len(Archive.entries[k].comments) :
               Trim(Archive.entries[k].comments[e].text) # << >> =>
                 InOutput(Archive.entries[k].comments[e])

\* C16: whatever the remote services answer, translateBatch resolves with a
\* list as long as texts whose i-th element is the translation of texts[i]
\* or texts[i] itself.
C16_SameLengthSameOrder ==
  trPc = "resolved" =>
    /\ Len(trResult) = Len(trTexts)
    /\ \A i \in 1..Len(trTexts) :
         trResult[i] \in {trTexts[i], Translation(trTexts[i]), Trim(Translation(trTexts[i]))}

\* the value of the cell of record r cannot be converted
ValueThrowsAt(r) ==
  \E w \in 1..Len(Archive.worksheets) :
    /\ Archive.worksheets[w].name = r.sheetName
    /\ \E c \in 1..Len(Archive.worksheets[w].cells) :
         /\ Archive.worksheets[w].cells[c].address = r.cellAddress
         /\ getCellValueThrows(Archive.worksheets[w].cells[c])

\* C17: an error raised while the value of a cell is read does not leave
\* extractCommentsFromFile, in the threaded-comment pass or in the
\* legacy-note scan; the record of that cell has the could-not-be-read
\* sentinel as originalContent and the scan goes on with the other cells.
C17_CellErrorCaught ==
  /\ thrown # ErrCellValue
  /\ pc = "returned" =>
       /\ \A i \in 1..Len(extracted) :
            ValueThrowsAt(extracted[i]) => extracted[i].originalContent = UnreadableCell
       /\ scanIndex = Len(ScanOrder(Archive.worksheets, Len(Archive.worksheets)))

\* C18: when the legacy-note scan starts, before its first cell is examined,
\* existingAddresses holds the sheetName|cellAddress key of every record of
\* the threaded-comment pass; no step of the scan changes the set.
C18_ExclusionSetReady ==
  [][ /\ (pc = "legacy_pass" /\ pc' = "legacy_scan") =>
          /\ scanIndex' = 0
          /\ \A i \in 1..Len(extracted') :
               AddressKey(extracted'[i].sheetName, extracted'[i].cellAddress)
                 \in existingAddresses'
      /\ pc = "legacy_scan" => existingAddresses' = existingAddresses ]_vars

\* a scan past its first cell with threaded records excluded and a note added
C18_Witness ==
  /\ pc = "legacy_scan"
  /\ scanIndex >= 1
  /\ threadedLen >= 1
  /\ existingAddresses # {}
  /\ Len(extracted) > threadedLen

\* the entries of sheetNames that a relationship id leads to
NamesWithId(names) == SelectSeq(names, LAMBDA kv : kv.key # << >>)

\* C19: a manifest sheet without relationship id is never the answer of a
\* look-up made while the threaded-comment parts are resolved, the look-up
\* with the empty id of a sheet missing from the workbook relationships
\* included: the part-to-sheet map is the one the sheets with an id give,
\* and such a part is named by its position.
C19_NoIdSheetUnreachable ==
  pc = "tc_parts" =>
    sheetToThreadedComment =
      LoadSheetToThreadedComment(Archive.sheetRels, ProbeMax,
                                 NamesWithId(sheetNames), sheetFileMap)

\* the number of digits that end s
RECURSIVE DigitsBack(_, _)
DigitsBack(s, i) ==
  IF i < 1 \/ s[i] \notin DigitChar THEN 0 ELSE 1 + DigitsBack(s, i - 1)

\* the digits N of a path that ends in threadedComment<N>.xml, or << >>
TrailingDigits(path) ==
  LET stemLen == Len(path) - Len(S_dotXml)
      nd == DigitsBack(path, stemLen)
  IN  IF /\ EndsWith(path, S_dotXml)
         /\ nd >= 1
         /\ EndsWith(SubSeq(path, 1, stemLen - nd), S_threadedComment)
      THEN SubSeq(path, stemLen - nd + 1, stemLen)
      ELSE << >>

\* the names of the manifest sheets whose relationship id is rId<n>
ManifestNamesFor(a, n) ==
  {OrElse(SheetElements(a)[i].name, S_Sheet \o NumStr(i)) :
     i \in {j \in 1..Len(SheetElements(a)) : SheetElements(a)[j].rId = S_rId \o NumStr(n)}}

\* a probed sheet relationship file targets the part
Targeted(a, path) ==
  \E k \in 1..ProbeMax :
    /\ k \in DOMAIN a.sheetRels
    /\ \E t \in 1..Len(a.sheetRels[k]) :
         /\ Includes(a.sheetRels[k][t], S_tcPattern)
         /\ ReplaceFirst(a.sheetRels[k][t], S_dotdotSlash, S_xlSlash) = path

\* C20: the records of a part that no probed sheet relationship file
\* targets and whose name ends in threadedComment<N>.xml carry the name of
\* the manifest sheet with relationship id rId<N> when there is one, and
\* Sheet<N> otherwise.
C20_FallbackName ==
  (pc = "tc_parts" /\ tcIndex >= 1) =>
    LET part == threadedCommentsFiles[tcIndex]
        n == ParseInt(TrailingDigits(part.path))
    IN  (/\ ~part.isDir
         /\ ~Targeted(Archive, part.path)
         /\ TrailingDigits(part.path) # << >>) =>
          \A i \in 1..Len(sheetComments) :
            IF ManifestNamesFor(Archive, n) # {}
            THEN sheetComments[i].sheetName \in ManifestNamesFor(Archive, n)
            ELSE sheetComments[i].sheetName = S_Sheet \o NumStr(n)

\* the threadedComment elements of the archive whose text is not blank
SpokenElements(a) ==
  {el \in UNION {{a.entries[k].comments[i] : i \in 1..Len(a.entries[k].comments)} :
                   k \in 1..Len(a.entries)} : Trim(el.text) # << >>}

\* the cells of sheet w, as sheetName and cell, whose note has a text that
\* is not blank
SpokenNotes(a) ==
  {at \in UNION {{[sheetName |-> a.worksheets[w].name, cell |-> a.worksheets[w].cells[c]] :
                    c \in 1..Len(a.worksheets[w].cells)} : w \in 1..Len(a.worksheets)} :
     HasNote(at.cell) /\ Trim(getCommentContent(at.cell.note).text) # << >>}

\* record r stems from an element or from a note whose text is not blank
FromSpokenText(r) ==
  \/ \E el \in SpokenElements(Archive) :
       /\ r.cellAddress = el.ref
       /\ r.commentContent = cleanCommentContent(Trim(el.text))
  \/ \E at \in SpokenNotes(Archive) :
       /\ r.sheetName = at.sheetName
       /\ r.cellAddress = at.cell.address
       /\ r.commentContent = cleanCommentContent(getCommentContent(at.cell.note).text)

\* C21: every output record stems from a threadedComment element or a
\* legacy note whose raw text is not empty after trimming; an element whose
\* text is empty or white space gives no record and no key of the
\* exclusion set, and neither does such a note.
C21_BlankTextSkipped ==
  /\ \A i \in 1..Len(extracted) : FromSpokenText(extracted[i])
  /\ \A i \in 1..Len(sheetComments) :
       \E el \in SpokenElements(Archive) :
         sheetComments[i].cellAddress = el.ref /\ sheetComments[i].text = Trim(el.text)
  /\ \A key \in existingAddresses :
       \E el \in SpokenElements(Archive) : EndsWith(key, <<"|">> \o el.ref)

\* a list was returned for an archive with a blank threadedComment element
\* and a blank note on a cell the scan examined, next to a spoken element
C21_Witness ==
  /\ pc = "returned"
  /\ Len(extracted) >= 1
  /\ existingAddresses # {}
  /\ \E k \in 1..Len(Archive.entries) : \E i \in 1..Len(Archive.entries[k].comments) :
       Trim(Archive.entries[k].comments[i].text) = << >>
  /\ \E w \in 1..Len(Archive.worksheets) : \E c \in 1..Len(Archive.worksheets[w].cells) :
       LET cell == Archive.worksheets[w].cells[c]
       IN  /\ HasNote(cell)
           /\ Trim(getCommentContent(cell.note).text) = << >>
           /\ AddressKey(Archive.worksheets[w].name, cell.address) \notin existingAddresses

\* the texts of the runs from the k-th on, one after the other
RECURSIVE ConcatFrom(_, _)
ConcatFrom(runs, k) == IF k > Len(runs) THEN << >> ELSE runs[k] \o ConcatFrom(runs, k + 1)

HasColon(str) == \E i \in 1..Len(str) : str[i] = ":"
FirstColon(str) == CHOOSE i \in 1..Len(str) : str[i] = ":" /\ \A j \in 1..(i - 1) : str[j] # ":"

\* the property holds something: it is there and is not the empty string
FieldGiven(f) == f.kind # "absent" /\ ~(f.kind = "string" /\ f.text = << >>)

\* what the property holds, as text
FieldValue(f) == IF f.kind = "string" THEN f.text ELSE f.json

\* C22: the text getCommentContent returns for a note is, in this order of
\* precedence, the concatenation of the rich-text runs when the note has a
\* run list, the direct note field, the text field, a dump of the whole
\* note object; with a run list whose first run contains a colon the author
\* is the trimmed text before that colon and the text still starts with
\* the first run; a string note comes back as it is with the unknown author.
C22_NotePrecedence ==
  notePc = "returned" =>
    /\ noteIn.kind = "string" =>
         noteOut = [text |-> noteIn.text, author |-> UnknownAuthor]
    /\ noteIn.kind = "object" =>
         IF noteIn.texts.kind = "runs"
         THEN LET runs == noteIn.texts.runs
              IN  /\ noteOut.text = ConcatFrom(runs, 1)
                  /\ (Len(runs) > 0 /\ HasColon(runs[1])) =>
                       /\ noteOut.author = Trim(SubSeq(runs[1], 1, FirstColon(runs[1]) - 1))
                       /\ IsSubAt(noteOut.text, 1, runs[1])
         ELSE IF FieldGiven(noteIn.note) THEN noteOut.text = FieldValue(noteIn.note)
         ELSE IF FieldGiven(noteIn.text) THEN noteOut.text = FieldValue(noteIn.text)
         ELSE /\ Len(noteOut.text) >= 2
              /\ noteOut.text[1] = "{"
              /\ noteOut.text[Len(noteOut.text)] = "}"
              /\ \A f \in {noteIn.texts, noteIn.note, noteIn.text} :
                   f.kind = "string" => Includes(noteOut.text, Quote(f.text))

\* a note object without run list whose note and text fields both hold
\* something, and not the same thing, went through getCommentContent
C22_Witness ==
  /\ notePc = "returned"
  /\ noteIn.kind = "object"
  /\ noteIn.texts.kind # "runs"
  /\ FieldGiven(noteIn.note)
  /\ FieldGiven(noteIn.text)
  /\ FieldValue(noteIn.note) # FieldValue(noteIn.text)
  /\ noteOut.text = FieldValue(noteIn.note)

\* the collection returned by extractThreadedComments holds a record of
\* element el
InResult(el) ==
  \E s \in 1..Len(result) : \E i \in 1..Len(result[s].val) :
    /\ result[s].val[i].cellAddress = el.ref
    /\ result[s].val[i].text = Trim(el.text)

\* the elements with text of the parts extractThreadedComments parsed
ParsedElements ==
  {el \in UNION {{threadedCommentsFiles[k].comments[i] :
                     i \in 1..Len(threadedCommentsFiles[k].comments)} :
                   k \in {j \in 1..Len(threadedCommentsFiles) : ~threadedCommentsFiles[j].isDir}} :
     Trim(el.text) # << >>}

\* C23: once extractThreadedComments has completed without exception, each
\* threadedComment element with non-empty trimmed text of each part is in
\* the returned collection, and in the list extractCommentsFromFile
\* returns, also when two parts resolve to the same sheet name.
C23_EveryElementKept ==
  /\ (pc = "threaded_pass" /\ hasThreadedComments /\ ~tcError) =>
       \A el \in ParsedElements : InResult(el)
  /\ (pc = "returned" /\ hasThreadedComments /\ ~tcError) =>
       \A el \in ParsedElements :
         \E i \in 1..Len(extracted) :
           /\ extracted[i].cellAddress = el.ref
           /\ extracted[i].commentContent = cleanCommentContent(Trim(el.text))

\* the sheet relationship file of sheet index k targets the part
TargetedBy(a, k, path) ==
  /\ k \in DOMAIN a.sheetRels
  /\ \E t \in 1..Len(a.sheetRels[k]) :
       /\ Includes(a.sheetRels[k][t], S_tcPattern)
       /\ ReplaceFirst(a.sheetRels[k][t], S_dotdotSlash, S_xlSlash) = path

\* the manifest names that sheet index k reaches through a workbook
\* relationship id
ChainNamesOf(a, k) ==
  {OrElse(SheetElements(a)[i].name, S_Sheet \o NumStr(i)) :
     i \in {j \in 1..Len(SheetElements(a)) :
              /\ SheetElements(a)[j].rId # << >>
              /\ \E r \in 1..Len(RelationshipElements(a)) :
                   /\ RelationshipElements(a)[r].Id = SheetElements(a)[j].rId
                   /\ StripLeadingSlash(RelationshipElements(a)[r].Target) = SheetPartKey(k)}}

\* C24: the records of a part that the relationship chain resolves, sheet
\* relationship file to workbook relationship id to manifest name, carry
\* the manifest name the chain gave, whatever that name is; the file-name
\* fallback does not replace it.
C24_ChainNameKept ==
  (pc = "tc_parts" /\ tcIndex >= 1) =>
    LET part == threadedCommentsFiles[tcIndex]
        sheetsOf == {k \in 1..ProbeMax : TargetedBy(Archive, k, part.path)}
    IN  (/\ ~part.isDir
         /\ sheetsOf # {}
         /\ \A k \in sheetsOf : ChainNamesOf(Archive, k) # {}) =>
          \A i \in 1..Len(sheetComments) :
            \E k \in sheetsOf : sheetComments[i].sheetName \in ChainNamesOf(Archive, k)

\* C25: whatever the interleaving of file selections with a running
\* processFile, a list of results or a download link that is put on display
\* was produced from the file selected at that moment: an extraction that
\* completes after another file was selected displays nothing of the
\* earlier file.
C25_ResultsOfSelectedFile ==
  [][ /\ (extractedComments' # extractedComments /\ extractedComments' # << >>) =>
          file = selectedLocalFile'
      /\ (downloadUrl' # downloadUrl /\ downloadUrl' # << >>) =>
          file = selectedLocalFile' ]_vars
====
